---- MODULE Spec2Model ----
(***************************************************************************)
(* The Insight Layer of clipnotes: the per-window TTL cache                *)
(* (services/insights/cache.py), the Insight Service that builds and       *)
(* serves snapshots through it (services/insights/service.py) and the      *)
(* Share Store (services/insights/share_store.py).                         *)
(*                                                                         *)
(* Concurrency is asyncio's: one task runs at a time and a task gives up   *)
(* control only at an await that really suspends (a held lock, database    *)
(* I/O).  Every action below is one such run-to-suspension segment.        *)
(*                                                                         *)
(* Python's None is the empty set and an optional value x is {x}.          *)
(***************************************************************************)
EXTENDS Integers, Sequences, FiniteSets, TLC

\* ------------------------------------------------------------------ bounds
NumCallers == 2
MaxTime == 1
MaxStore == 1
MaxCalls == 3
MaxShareCalls == 2
MaxSnapshotCalls == 2
MaxRecords == 2
MaxClipCalls == 1

Callers == 1..NumCallers

\* Instants are counted in half hours since the epoch, in UTC.
Hour == 2
Day == 24 * Hour

\* The instants a run starts at: midnight, with the clock's next steps in
\* the same hour, and half an hour before midnight, with the clock's next
\* step in the next hour of the next day.  A run lasts MaxTime steps.
StartTimes == {0, Day - 1}
Times == UNION {s..(s + MaxTime) : s \in StartTimes}

\* datetime.date(): the UTC day an instant of the clock lies in
date(t) == t \div Day
Dates == {date(t) : t \in Times}

\* validators.py: SUPPORTED_WINDOWS
SUPPORTED_WINDOWS == {"24h", "7d"}
Keys == SUPPORTED_WINDOWS

\* cache_ttl_seconds values the service is constructed with
TTLs == {0, 1}

None == {}
Some(x) == {x}
TheOne(s) == CHOOSE x \in s : TRUE

VARIABLES
  now,       \* the wall clock, datetime.now(timezone.utc)
  ttl,       \* InsightCache._ttl_seconds
  clips,     \* the clips table: the ids of its rows
  store,     \* the analysis_results table: a sequence of
             \* [clip_id, created_at, moments]
  entries,   \* InsightCache._entries : key -> optional CacheEntry
  locks,     \* InsightCache._locks : key -> optional index into lockObjs
  lockObjs,  \* the asyncio.Lock objects created so far: [locked, waiters]
  pc,        \* where each caller's coroutine is suspended
  call,      \* the call each caller is in (or last made)
  local,     \* the coroutine's local variables
  ret,       \* what the caller's last call returned or raised
  shares,    \* the insight_shares table: token hash -> optional row
  share_base_url,  \* InsightService._share_base_url (optional)
  foreign_keys,    \* whether the database enforces ON DELETE CASCADE
                   \* (PostgreSQL does; SQLite does not unless PRAGMA
                   \* foreign_keys is set, and the code never sets it)
  initialized,     \* db/session.py: database_url in _INITIALIZED_URLS
  _initialized,    \* InsightAggregator._initialized
  _SCHEMA_LOCK,    \* db/session.py: the asyncio.Lock [locked, waiters]
  used,            \* history: the clip ids uuid4 has drawn so far
  request_counts,  \* the request_counts table: date -> optional row
  served,    \* history: per key, the contents get_snapshot has returned
             \* from the entry now cached, while that entry was unexpired
  calls,     \* history: the number of calls made so far
  tracked    \* history: per date, the tracked requests completed so far
             \* whose own commit the database did not fail

vars == <<now, ttl, clips, store, entries, locks, lockObjs, pc, call, local,
          ret, shares, share_base_url, foreign_keys, initialized,
          _initialized, _SCHEMA_LOCK, used, request_counts, served, calls,
          tracked>>

\* ------------------------------------------------------------ cache.py
\* faulty variant: an entry whose expiry is the current instant still counts
is_valid_inclusive(entry, t) ==
  entry.expires_at = None \/ TheOne(entry.expires_at) >= t

\* CacheEntry.is_valid
is_valid(entry, t) ==
  entry.expires_at = None \/ TheOne(entry.expires_at) > t

\* faulty variant: without a TTL an entry still lives for one tick
_expiry_grace(ttlSeconds, t) ==
  IF ttlSeconds <= 0 THEN t + 1 ELSE t + ttlSeconds

\* InsightCache._expiry
_expiry(ttlSeconds, t) ==
  IF ttlSeconds <= 0 THEN t ELSE t + ttlSeconds

\* faulty variant: the validity test inverted: a valid entry is evicted
cache_get_inverted(E, key, t) ==
  IF E[key] = None
    THEN [entry |-> None, entries |-> E]
    ELSE IF ~(TheOne(E[key]).expires_at = None
              \/ TheOne(TheOne(E[key]).expires_at) > t)
      THEN [entry |-> E[key], entries |-> E]
      ELSE [entry |-> None, entries |-> [E EXCEPT ![key] = None]]

\* InsightCache.get: the entry returned (None for a miss) and the entry map
\* it leaves behind
cache_get(E, key, t) ==
  IF E[key] = None
    THEN [entry |-> None, entries |-> E]
    ELSE IF is_valid(TheOne(E[key]), t)
      THEN [entry |-> E[key], entries |-> E]
      ELSE [entry |-> None, entries |-> [E EXCEPT ![key] = None]]

\* InsightCache.set
cache_set(E, key, value, expires_at, ttlSeconds, t) ==
  LET expiry == IF expires_at = None THEN _expiry(ttlSeconds, t)
                                     ELSE TheOne(expires_at)
      entry  == [value |-> value, expires_at |-> Some(expiry)]
  IN  [entry |-> Some(entry), entries |-> [E EXCEPT ![key] = Some(entry)]]

\* faulty variant: the whole map is cleared whatever the key
cache_invalidate_all(E, key) == [k \in Keys |-> None]

\* InsightCache.invalidate; key = None clears the whole map
cache_invalidate(E, key) ==
  IF key = None THEN [k \in Keys |-> None]
                ELSE [E EXCEPT ![TheOne(key)] = None]

\* faulty variant: a new lock on every call, replacing the registered one
_get_lock_fresh(L, O, key) ==
  [id |-> Len(O) + 1,
   locks |-> [L EXCEPT ![key] = Some(Len(O) + 1)],
   lockObjs |-> Append(O, [locked |-> FALSE, waiters |-> <<>>])]

\* InsightCache._get_lock, run under _locks_guard (never contended: nothing
\* suspends while holding it)
_get_lock(L, O, key) ==
  IF L[key] = None
    THEN [id |-> Len(O) + 1,
          locks |-> [L EXCEPT ![key] = Some(Len(O) + 1)],
          lockObjs |-> Append(O, [locked |-> FALSE, waiters |-> <<>>])]
    ELSE [id |-> TheOne(L[key]), locks |-> L, lockObjs |-> O]

\* faulty variant: the lock stays held
lock_release_never(O, id) == O

\* asyncio.Lock.release: the first waiter, if any, is woken and takes the
\* lock when it next runs (LockAcquired)
lock_release(O, id) == [O EXCEPT ![id].locked = FALSE]

\* faulty variant: an exception leaves "async with lock" with the lock held
release_on_raise_skipped(O, id) == O

\* "async with lock" left by an exception: __aexit__ releases the lock
release_on_raise(O, id) == lock_release(O, id)

\* faulty variant: no second look at the cache once the lock is held
recheck_skipped(E, key, t) == [entry |-> None, entries |-> E]

\* get_or_set, under the lock: "cached = await self.get(key)" again
recheck(E, key, t) == cache_get(E, key, t)

\* ------------------------------------------------------- validators.py
\* A Python str is the sequence of the code points of its characters
\* (ord(ch) for each ch).  An ASCII literal is written by its characters:
\* Str(<<"2", "4", "h">>) is the str "24h".  ord over the characters
\* U+0020..U+005F and U+0061..U+007E:
ord(ch) ==
  CASE ch = " " -> 32 [] ch = "!" -> 33 [] ch = "\"" -> 34 [] ch = "#" -> 35
    [] ch = "$" -> 36 [] ch = "%" -> 37 [] ch = "&" -> 38 [] ch = "'" -> 39
    [] ch = "(" -> 40 [] ch = ")" -> 41 [] ch = "*" -> 42 [] ch = "+" -> 43
    [] ch = "," -> 44 [] ch = "-" -> 45 [] ch = "." -> 46 [] ch = "/" -> 47
    [] ch = "0" -> 48 [] ch = "1" -> 49 [] ch = "2" -> 50 [] ch = "3" -> 51
    [] ch = "4" -> 52 [] ch = "5" -> 53 [] ch = "6" -> 54 [] ch = "7" -> 55
    [] ch = "8" -> 56 [] ch = "9" -> 57 [] ch = ":" -> 58 [] ch = ";" -> 59
    [] ch = "<" -> 60 [] ch = "=" -> 61 [] ch = ">" -> 62 [] ch = "?" -> 63
    [] ch = "@" -> 64 [] ch = "A" -> 65 [] ch = "B" -> 66 [] ch = "C" -> 67
    [] ch = "D" -> 68 [] ch = "E" -> 69 [] ch = "F" -> 70 [] ch = "G" -> 71
    [] ch = "H" -> 72 [] ch = "I" -> 73 [] ch = "J" -> 74 [] ch = "K" -> 75
    [] ch = "L" -> 76 [] ch = "M" -> 77 [] ch = "N" -> 78 [] ch = "O" -> 79
    [] ch = "P" -> 80 [] ch = "Q" -> 81 [] ch = "R" -> 82 [] ch = "S" -> 83
    [] ch = "T" -> 84 [] ch = "U" -> 85 [] ch = "V" -> 86 [] ch = "W" -> 87
    [] ch = "X" -> 88 [] ch = "Y" -> 89 [] ch = "Z" -> 90 [] ch = "[" -> 91
    [] ch = "\\" -> 92 [] ch = "]" -> 93 [] ch = "^" -> 94 [] ch = "_" -> 95
    [] ch = "a" -> 97 [] ch = "b" -> 98 [] ch = "c" -> 99 [] ch = "d" -> 100
    [] ch = "e" -> 101 [] ch = "f" -> 102 [] ch = "g" -> 103 [] ch = "h" -> 104
    [] ch = "i" -> 105 [] ch = "j" -> 106 [] ch = "k" -> 107 [] ch = "l" -> 108
    [] ch = "m" -> 109 [] ch = "n" -> 110 [] ch = "o" -> 111 [] ch = "p" -> 112
    [] ch = "q" -> 113 [] ch = "r" -> 114 [] ch = "s" -> 115 [] ch = "t" -> 116
    [] ch = "u" -> 117 [] ch = "v" -> 118 [] ch = "w" -> 119 [] ch = "x" -> 120
    [] ch = "y" -> 121 [] ch = "z" -> 122 [] ch = "{" -> 123 [] ch = "|" -> 124
    [] ch = "}" -> 125 [] ch = "~" -> 126
Str(chars) == [i \in DOMAIN chars |-> ord(chars[i])]

\* The characters str.strip() removes: the code points str.isspace() holds
\* for (Unicode 14.0.0).
Whitespace ==
  {
    9, 10, 11, 12, 13, 28, 29, 30, 31, 32, 133, 160, 5760, 8192, 8193, 8194,
    8195, 8196, 8197, 8198, 8199, 8200, 8201, 8202, 8232, 8233, 8239, 8287,
    12288
  }

\* str.lower(), the one-to-one mappings of the Unicode character database:
\* <<first, last, step, offset>> maps every code point first, first + step,
\* ..., last to itself plus offset.
LowerRanges ==
  {
    <<65, 90, 1, 32>>, <<192, 214, 1, 32>>, <<216, 222, 1, 32>>,
    <<256, 302, 2, 1>>, <<306, 310, 2, 1>>, <<313, 327, 2, 1>>,
    <<330, 374, 2, 1>>, <<376, 376, 1, -121>>, <<377, 381, 2, 1>>,
    <<385, 385, 1, 210>>, <<386, 388, 2, 1>>, <<390, 390, 1, 206>>,
    <<391, 391, 1, 1>>, <<393, 394, 1, 205>>, <<395, 395, 1, 1>>,
    <<398, 398, 1, 79>>, <<399, 399, 1, 202>>, <<400, 400, 1, 203>>,
    <<401, 401, 1, 1>>, <<403, 403, 1, 205>>, <<404, 404, 1, 207>>,
    <<406, 406, 1, 211>>, <<407, 407, 1, 209>>, <<408, 408, 1, 1>>,
    <<412, 412, 1, 211>>, <<413, 413, 1, 213>>, <<415, 415, 1, 214>>,
    <<416, 420, 2, 1>>, <<422, 422, 1, 218>>, <<423, 423, 1, 1>>,
    <<425, 425, 1, 218>>, <<428, 428, 1, 1>>, <<430, 430, 1, 218>>,
    <<431, 431, 1, 1>>, <<433, 434, 1, 217>>, <<435, 437, 2, 1>>,
    <<439, 439, 1, 219>>, <<440, 440, 1, 1>>, <<444, 444, 1, 1>>,
    <<452, 452, 1, 2>>, <<453, 453, 1, 1>>, <<455, 455, 1, 2>>,
    <<456, 456, 1, 1>>, <<458, 458, 1, 2>>, <<459, 475, 2, 1>>,
    <<478, 494, 2, 1>>, <<497, 497, 1, 2>>, <<498, 500, 2, 1>>,
    <<502, 502, 1, -97>>, <<503, 503, 1, -56>>, <<504, 542, 2, 1>>,
    <<544, 544, 1, -130>>, <<546, 562, 2, 1>>, <<570, 570, 1, 10795>>,
    <<571, 571, 1, 1>>, <<573, 573, 1, -163>>, <<574, 574, 1, 10792>>,
    <<577, 577, 1, 1>>, <<579, 579, 1, -195>>, <<580, 580, 1, 69>>,
    <<581, 581, 1, 71>>, <<582, 590, 2, 1>>, <<880, 882, 2, 1>>,
    <<886, 886, 1, 1>>, <<895, 895, 1, 116>>, <<902, 902, 1, 38>>,
    <<904, 906, 1, 37>>, <<908, 908, 1, 64>>, <<910, 911, 1, 63>>,
    <<913, 929, 1, 32>>, <<931, 939, 1, 32>>, <<975, 975, 1, 8>>,
    <<984, 1006, 2, 1>>, <<1012, 1012, 1, -60>>, <<1015, 1015, 1, 1>>,
    <<1017, 1017, 1, -7>>, <<1018, 1018, 1, 1>>, <<1021, 1023, 1, -130>>,
    <<1024, 1039, 1, 80>>, <<1040, 1071, 1, 32>>, <<1120, 1152, 2, 1>>,
    <<1162, 1214, 2, 1>>, <<1216, 1216, 1, 15>>, <<1217, 1229, 2, 1>>,
    <<1232, 1326, 2, 1>>, <<1329, 1366, 1, 48>>, <<4256, 4293, 1, 7264>>,
    <<4295, 4295, 1, 7264>>, <<4301, 4301, 1, 7264>>,
    <<5024, 5103, 1, 38864>>, <<5104, 5109, 1, 8>>, <<7312, 7354, 1, -3008>>,
    <<7357, 7359, 1, -3008>>, <<7680, 7828, 2, 1>>, <<7838, 7838, 1, -7615>>,
    <<7840, 7934, 2, 1>>, <<7944, 7951, 1, -8>>, <<7960, 7965, 1, -8>>,
    <<7976, 7983, 1, -8>>, <<7992, 7999, 1, -8>>, <<8008, 8013, 1, -8>>,
    <<8025, 8031, 2, -8>>, <<8040, 8047, 1, -8>>, <<8072, 8079, 1, -8>>,
    <<8088, 8095, 1, -8>>, <<8104, 8111, 1, -8>>, <<8120, 8121, 1, -8>>,
    <<8122, 8123, 1, -74>>, <<8124, 8124, 1, -9>>, <<8136, 8139, 1, -86>>,
    <<8140, 8140, 1, -9>>, <<8152, 8153, 1, -8>>, <<8154, 8155, 1, -100>>,
    <<8168, 8169, 1, -8>>, <<8170, 8171, 1, -112>>, <<8172, 8172, 1, -7>>,
    <<8184, 8185, 1, -128>>, <<8186, 8187, 1, -126>>, <<8188, 8188, 1, -9>>,
    <<8486, 8486, 1, -7517>>, <<8490, 8490, 1, -8383>>,
    <<8491, 8491, 1, -8262>>, <<8498, 8498, 1, 28>>, <<8544, 8559, 1, 16>>,
    <<8579, 8579, 1, 1>>, <<9398, 9423, 1, 26>>, <<11264, 11311, 1, 48>>,
    <<11360, 11360, 1, 1>>, <<11362, 11362, 1, -10743>>,
    <<11363, 11363, 1, -3814>>, <<11364, 11364, 1, -10727>>,
    <<11367, 11371, 2, 1>>, <<11373, 11373, 1, -10780>>,
    <<11374, 11374, 1, -10749>>, <<11375, 11375, 1, -10783>>,
    <<11376, 11376, 1, -10782>>, <<11378, 11378, 1, 1>>,
    <<11381, 11381, 1, 1>>, <<11390, 11391, 1, -10815>>,
    <<11392, 11490, 2, 1>>, <<11499, 11501, 2, 1>>, <<11506, 11506, 1, 1>>,
    <<42560, 42604, 2, 1>>, <<42624, 42650, 2, 1>>, <<42786, 42798, 2, 1>>,
    <<42802, 42862, 2, 1>>, <<42873, 42875, 2, 1>>,
    <<42877, 42877, 1, -35332>>, <<42878, 42886, 2, 1>>,
    <<42891, 42891, 1, 1>>, <<42893, 42893, 1, -42280>>,
    <<42896, 42898, 2, 1>>, <<42902, 42920, 2, 1>>,
    <<42922, 42922, 1, -42308>>, <<42923, 42923, 1, -42319>>,
    <<42924, 42924, 1, -42315>>, <<42925, 42925, 1, -42305>>,
    <<42926, 42926, 1, -42308>>, <<42928, 42928, 1, -42258>>,
    <<42929, 42929, 1, -42282>>, <<42930, 42930, 1, -42261>>,
    <<42931, 42931, 1, 928>>, <<42932, 42946, 2, 1>>,
    <<42948, 42948, 1, -48>>, <<42949, 42949, 1, -42307>>,
    <<42950, 42950, 1, -35384>>, <<42951, 42953, 2, 1>>,
    <<42960, 42960, 1, 1>>, <<42966, 42968, 2, 1>>, <<42997, 42997, 1, 1>>,
    <<65313, 65338, 1, 32>>, <<66560, 66599, 1, 40>>,
    <<66736, 66771, 1, 40>>, <<66928, 66938, 1, 39>>,
    <<66940, 66954, 1, 39>>, <<66956, 66962, 1, 39>>,
    <<66964, 66965, 1, 39>>, <<68736, 68786, 1, 64>>,
    <<71840, 71871, 1, 32>>, <<93760, 93791, 1, 32>>,
    <<125184, 125217, 1, 34>>
  }

\* str.lower(), the final-sigma rule: the code points with the property
\* Case_Ignorable, as <<first, last>> ranges
CaseIgnorableRanges ==
  {
    <<39, 39>>, <<46, 46>>, <<58, 58>>, <<94, 94>>, <<96, 96>>, <<168, 168>>,
    <<173, 173>>, <<175, 175>>, <<180, 180>>, <<183, 184>>, <<688, 879>>,
    <<884, 885>>, <<890, 890>>, <<900, 901>>, <<903, 903>>, <<1155, 1161>>,
    <<1369, 1369>>, <<1375, 1375>>, <<1425, 1469>>, <<1471, 1471>>,
    <<1473, 1474>>, <<1476, 1477>>, <<1479, 1479>>, <<1524, 1524>>,
    <<1536, 1541>>, <<1552, 1562>>, <<1564, 1564>>, <<1600, 1600>>,
    <<1611, 1631>>, <<1648, 1648>>, <<1750, 1757>>, <<1759, 1768>>,
    <<1770, 1773>>, <<1807, 1807>>, <<1809, 1809>>, <<1840, 1866>>,
    <<1958, 1968>>, <<2027, 2037>>, <<2042, 2042>>, <<2045, 2045>>,
    <<2070, 2093>>, <<2137, 2139>>, <<2184, 2184>>, <<2192, 2193>>,
    <<2200, 2207>>, <<2249, 2306>>, <<2362, 2362>>, <<2364, 2364>>,
    <<2369, 2376>>, <<2381, 2381>>, <<2385, 2391>>, <<2402, 2403>>,
    <<2417, 2417>>, <<2433, 2433>>, <<2492, 2492>>, <<2497, 2500>>,
    <<2509, 2509>>, <<2530, 2531>>, <<2558, 2558>>, <<2561, 2562>>,
    <<2620, 2620>>, <<2625, 2626>>, <<2631, 2632>>, <<2635, 2637>>,
    <<2641, 2641>>, <<2672, 2673>>, <<2677, 2677>>, <<2689, 2690>>,
    <<2748, 2748>>, <<2753, 2757>>, <<2759, 2760>>, <<2765, 2765>>,
    <<2786, 2787>>, <<2810, 2815>>, <<2817, 2817>>, <<2876, 2876>>,
    <<2879, 2879>>, <<2881, 2884>>, <<2893, 2893>>, <<2901, 2902>>,
    <<2914, 2915>>, <<2946, 2946>>, <<3008, 3008>>, <<3021, 3021>>,
    <<3072, 3072>>, <<3076, 3076>>, <<3132, 3132>>, <<3134, 3136>>,
    <<3142, 3144>>, <<3146, 3149>>, <<3157, 3158>>, <<3170, 3171>>,
    <<3201, 3201>>, <<3260, 3260>>, <<3263, 3263>>, <<3270, 3270>>,
    <<3276, 3277>>, <<3298, 3299>>, <<3328, 3329>>, <<3387, 3388>>,
    <<3393, 3396>>, <<3405, 3405>>, <<3426, 3427>>, <<3457, 3457>>,
    <<3530, 3530>>, <<3538, 3540>>, <<3542, 3542>>, <<3633, 3633>>,
    <<3636, 3642>>, <<3654, 3662>>, <<3761, 3761>>, <<3764, 3772>>,
    <<3782, 3782>>, <<3784, 3789>>, <<3864, 3865>>, <<3893, 3893>>,
    <<3895, 3895>>, <<3897, 3897>>, <<3953, 3966>>, <<3968, 3972>>,
    <<3974, 3975>>, <<3981, 3991>>, <<3993, 4028>>, <<4038, 4038>>,
    <<4141, 4144>>, <<4146, 4151>>, <<4153, 4154>>, <<4157, 4158>>,
    <<4184, 4185>>, <<4190, 4192>>, <<4209, 4212>>, <<4226, 4226>>,
    <<4229, 4230>>, <<4237, 4237>>, <<4253, 4253>>, <<4348, 4348>>,
    <<4957, 4959>>, <<5906, 5908>>, <<5938, 5939>>, <<5970, 5971>>,
    <<6002, 6003>>, <<6068, 6069>>, <<6071, 6077>>, <<6086, 6086>>,
    <<6089, 6099>>, <<6103, 6103>>, <<6109, 6109>>, <<6155, 6159>>,
    <<6211, 6211>>, <<6277, 6278>>, <<6313, 6313>>, <<6432, 6434>>,
    <<6439, 6440>>, <<6450, 6450>>, <<6457, 6459>>, <<6679, 6680>>,
    <<6683, 6683>>, <<6742, 6742>>, <<6744, 6750>>, <<6752, 6752>>,
    <<6754, 6754>>, <<6757, 6764>>, <<6771, 6780>>, <<6783, 6783>>,
    <<6823, 6823>>, <<6832, 6862>>, <<6912, 6915>>, <<6964, 6964>>,
    <<6966, 6970>>, <<6972, 6972>>, <<6978, 6978>>, <<7019, 7027>>,
    <<7040, 7041>>, <<7074, 7077>>, <<7080, 7081>>, <<7083, 7085>>,
    <<7142, 7142>>, <<7144, 7145>>, <<7149, 7149>>, <<7151, 7153>>,
    <<7212, 7219>>, <<7222, 7223>>, <<7288, 7293>>, <<7376, 7378>>,
    <<7380, 7392>>, <<7394, 7400>>, <<7405, 7405>>, <<7412, 7412>>,
    <<7416, 7417>>, <<7468, 7530>>, <<7544, 7544>>, <<7579, 7679>>,
    <<8125, 8125>>, <<8127, 8129>>, <<8141, 8143>>, <<8157, 8159>>,
    <<8173, 8175>>, <<8189, 8190>>, <<8203, 8207>>, <<8216, 8217>>,
    <<8228, 8228>>, <<8231, 8231>>, <<8234, 8238>>, <<8288, 8292>>,
    <<8294, 8303>>, <<8305, 8305>>, <<8319, 8319>>, <<8336, 8348>>,
    <<8400, 8432>>, <<11388, 11389>>, <<11503, 11505>>, <<11631, 11631>>,
    <<11647, 11647>>, <<11744, 11775>>, <<11823, 11823>>, <<12293, 12293>>,
    <<12330, 12333>>, <<12337, 12341>>, <<12347, 12347>>, <<12441, 12446>>,
    <<12540, 12542>>, <<40981, 40981>>, <<42232, 42237>>, <<42508, 42508>>,
    <<42607, 42610>>, <<42612, 42621>>, <<42623, 42623>>, <<42652, 42655>>,
    <<42736, 42737>>, <<42752, 42785>>, <<42864, 42864>>, <<42888, 42890>>,
    <<42994, 42996>>, <<43000, 43001>>, <<43010, 43010>>, <<43014, 43014>>,
    <<43019, 43019>>, <<43045, 43046>>, <<43052, 43052>>, <<43204, 43205>>,
    <<43232, 43249>>, <<43263, 43263>>, <<43302, 43309>>, <<43335, 43345>>,
    <<43392, 43394>>, <<43443, 43443>>, <<43446, 43449>>, <<43452, 43453>>,
    <<43471, 43471>>, <<43493, 43494>>, <<43561, 43566>>, <<43569, 43570>>,
    <<43573, 43574>>, <<43587, 43587>>, <<43596, 43596>>, <<43632, 43632>>,
    <<43644, 43644>>, <<43696, 43696>>, <<43698, 43700>>, <<43703, 43704>>,
    <<43710, 43711>>, <<43713, 43713>>, <<43741, 43741>>, <<43756, 43757>>,
    <<43763, 43764>>, <<43766, 43766>>, <<43867, 43871>>, <<43881, 43883>>,
    <<44005, 44005>>, <<44008, 44008>>, <<44013, 44013>>, <<64286, 64286>>,
    <<64434, 64450>>, <<65024, 65039>>, <<65043, 65043>>, <<65056, 65071>>,
    <<65106, 65106>>, <<65109, 65109>>, <<65279, 65279>>, <<65287, 65287>>,
    <<65294, 65294>>, <<65306, 65306>>, <<65342, 65342>>, <<65344, 65344>>,
    <<65392, 65392>>, <<65438, 65439>>, <<65507, 65507>>, <<65529, 65531>>,
    <<66045, 66045>>, <<66272, 66272>>, <<66422, 66426>>, <<67456, 67461>>,
    <<67463, 67504>>, <<67506, 67514>>, <<68097, 68099>>, <<68101, 68102>>,
    <<68108, 68111>>, <<68152, 68154>>, <<68159, 68159>>, <<68325, 68326>>,
    <<68900, 68903>>, <<69291, 69292>>, <<69446, 69456>>, <<69506, 69509>>,
    <<69633, 69633>>, <<69688, 69702>>, <<69744, 69744>>, <<69747, 69748>>,
    <<69759, 69761>>, <<69811, 69814>>, <<69817, 69818>>, <<69821, 69821>>,
    <<69826, 69826>>, <<69837, 69837>>, <<69888, 69890>>, <<69927, 69931>>,
    <<69933, 69940>>, <<70003, 70003>>, <<70016, 70017>>, <<70070, 70078>>,
    <<70089, 70092>>, <<70095, 70095>>, <<70191, 70193>>, <<70196, 70196>>,
    <<70198, 70199>>, <<70206, 70206>>, <<70367, 70367>>, <<70371, 70378>>,
    <<70400, 70401>>, <<70459, 70460>>, <<70464, 70464>>, <<70502, 70508>>,
    <<70512, 70516>>, <<70712, 70719>>, <<70722, 70724>>, <<70726, 70726>>,
    <<70750, 70750>>, <<70835, 70840>>, <<70842, 70842>>, <<70847, 70848>>,
    <<70850, 70851>>, <<71090, 71093>>, <<71100, 71101>>, <<71103, 71104>>,
    <<71132, 71133>>, <<71219, 71226>>, <<71229, 71229>>, <<71231, 71232>>,
    <<71339, 71339>>, <<71341, 71341>>, <<71344, 71349>>, <<71351, 71351>>,
    <<71453, 71455>>, <<71458, 71461>>, <<71463, 71467>>, <<71727, 71735>>,
    <<71737, 71738>>, <<71995, 71996>>, <<71998, 71998>>, <<72003, 72003>>,
    <<72148, 72151>>, <<72154, 72155>>, <<72160, 72160>>, <<72193, 72202>>,
    <<72243, 72248>>, <<72251, 72254>>, <<72263, 72263>>, <<72273, 72278>>,
    <<72281, 72283>>, <<72330, 72342>>, <<72344, 72345>>, <<72752, 72758>>,
    <<72760, 72765>>, <<72767, 72767>>, <<72850, 72871>>, <<72874, 72880>>,
    <<72882, 72883>>, <<72885, 72886>>, <<73009, 73014>>, <<73018, 73018>>,
    <<73020, 73021>>, <<73023, 73029>>, <<73031, 73031>>, <<73104, 73105>>,
    <<73109, 73109>>, <<73111, 73111>>, <<73459, 73460>>, <<78896, 78904>>,
    <<92912, 92916>>, <<92976, 92982>>, <<92992, 92995>>, <<94031, 94031>>,
    <<94095, 94111>>, <<94176, 94177>>, <<94179, 94180>>, <<110576, 110579>>,
    <<110581, 110587>>, <<110589, 110590>>, <<113821, 113822>>,
    <<113824, 113827>>, <<118528, 118573>>, <<118576, 118598>>,
    <<119143, 119145>>, <<119155, 119170>>, <<119173, 119179>>,
    <<119210, 119213>>, <<119362, 119364>>, <<121344, 121398>>,
    <<121403, 121452>>, <<121461, 121461>>, <<121476, 121476>>,
    <<121499, 121503>>, <<121505, 121519>>, <<122880, 122886>>,
    <<122888, 122904>>, <<122907, 122913>>, <<122915, 122916>>,
    <<122918, 122922>>, <<123184, 123197>>, <<123566, 123566>>,
    <<123628, 123631>>, <<125136, 125142>>, <<125252, 125259>>,
    <<127995, 127999>>, <<917505, 917505>>, <<917536, 917631>>,
    <<917760, 917999>>
  }

\* the code points with the property Cased (str.lower()'s final-sigma rule
\* and str.title() ask for it), as <<first, last>> ranges
CasedRanges ==
  {
    <<65, 90>>, <<97, 122>>, <<170, 170>>, <<181, 181>>, <<186, 186>>,
    <<192, 214>>, <<216, 246>>, <<248, 442>>, <<444, 447>>, <<452, 659>>,
    <<661, 696>>, <<704, 705>>, <<736, 740>>, <<837, 837>>, <<880, 883>>,
    <<886, 887>>, <<890, 893>>, <<895, 895>>, <<902, 902>>, <<904, 906>>,
    <<908, 908>>, <<910, 929>>, <<931, 1013>>, <<1015, 1153>>, <<1162, 1327>>,
    <<1329, 1366>>, <<1376, 1416>>, <<4256, 4293>>, <<4295, 4295>>,
    <<4301, 4301>>, <<4304, 4346>>, <<4349, 4351>>, <<5024, 5109>>,
    <<5112, 5117>>, <<7296, 7304>>, <<7312, 7354>>, <<7357, 7359>>,
    <<7424, 7615>>, <<7680, 7957>>, <<7960, 7965>>, <<7968, 8005>>,
    <<8008, 8013>>, <<8016, 8023>>, <<8025, 8025>>, <<8027, 8027>>,
    <<8029, 8029>>, <<8031, 8061>>, <<8064, 8116>>, <<8118, 8124>>,
    <<8126, 8126>>, <<8130, 8132>>, <<8134, 8140>>, <<8144, 8147>>,
    <<8150, 8155>>, <<8160, 8172>>, <<8178, 8180>>, <<8182, 8188>>,
    <<8305, 8305>>, <<8319, 8319>>, <<8336, 8348>>, <<8450, 8450>>,
    <<8455, 8455>>, <<8458, 8467>>, <<8469, 8469>>, <<8473, 8477>>,
    <<8484, 8484>>, <<8486, 8486>>, <<8488, 8488>>, <<8490, 8493>>,
    <<8495, 8500>>, <<8505, 8505>>, <<8508, 8511>>, <<8517, 8521>>,
    <<8526, 8526>>, <<8544, 8575>>, <<8579, 8580>>, <<9398, 9449>>,
    <<11264, 11492>>, <<11499, 11502>>, <<11506, 11507>>, <<11520, 11557>>,
    <<11559, 11559>>, <<11565, 11565>>, <<42560, 42605>>, <<42624, 42653>>,
    <<42786, 42887>>, <<42891, 42894>>, <<42896, 42954>>, <<42960, 42961>>,
    <<42963, 42963>>, <<42965, 42969>>, <<42997, 42998>>, <<43000, 43002>>,
    <<43824, 43866>>, <<43868, 43880>>, <<43888, 43967>>, <<64256, 64262>>,
    <<64275, 64279>>, <<65313, 65338>>, <<65345, 65370>>, <<66560, 66639>>,
    <<66736, 66771>>, <<66776, 66811>>, <<66928, 66938>>, <<66940, 66954>>,
    <<66956, 66962>>, <<66964, 66965>>, <<66967, 66977>>, <<66979, 66993>>,
    <<66995, 67001>>, <<67003, 67004>>, <<67456, 67456>>, <<67459, 67461>>,
    <<67463, 67504>>, <<67506, 67514>>, <<68736, 68786>>, <<68800, 68850>>,
    <<71840, 71903>>, <<93760, 93823>>, <<119808, 119892>>,
    <<119894, 119964>>, <<119966, 119967>>, <<119970, 119970>>,
    <<119973, 119974>>, <<119977, 119980>>, <<119982, 119993>>,
    <<119995, 119995>>, <<119997, 120003>>, <<120005, 120069>>,
    <<120071, 120074>>, <<120077, 120084>>, <<120086, 120092>>,
    <<120094, 120121>>, <<120123, 120126>>, <<120128, 120132>>,
    <<120134, 120134>>, <<120138, 120144>>, <<120146, 120485>>,
    <<120488, 120512>>, <<120514, 120538>>, <<120540, 120570>>,
    <<120572, 120596>>, <<120598, 120628>>, <<120630, 120654>>,
    <<120656, 120686>>, <<120688, 120712>>, <<120714, 120744>>,
    <<120746, 120770>>, <<120772, 120779>>, <<122624, 122633>>,
    <<122635, 122654>>, <<125184, 125251>>, <<127280, 127305>>,
    <<127312, 127337>>, <<127344, 127369>>
  }

IsCaseIgnorable(cp) ==
  \E r \in CaseIgnorableRanges : r[1] <= cp /\ cp <= r[2]
IsCased(cp) ==
  IF cp < 128 THEN (65 <= cp /\ cp <= 90) \/ (97 <= cp /\ cp <= 122)
  ELSE \E r \in CasedRanges : r[1] <= cp /\ cp <= r[2]

\* str.lower() on a str of one character: the characters it is made of.
\* U+0130 (LATIN CAPITAL LETTER I WITH DOT ABOVE) is the one character
\* whose lower case is two characters: "i" and COMBINING DOT ABOVE.  Of
\* the ASCII characters (below U+0080) only the letters A..Z change.
lower_char(cp) ==
  IF cp < 128 THEN <<IF 65 <= cp /\ cp <= 90 THEN cp + 32 ELSE cp>>
  ELSE IF cp = 304 THEN <<105, 775>>
  ELSE IF \E r \in LowerRanges :
            r[1] <= cp /\ cp <= r[2] /\ (cp - r[1]) % r[3] = 0
    THEN LET r == CHOOSE r \in LowerRanges :
                    r[1] <= cp /\ cp <= r[2] /\ (cp - r[1]) % r[3] = 0
         IN  <<cp + r[4]>>
    ELSE <<cp>>

\* str.lower(), the context of the capital sigma (U+03A3) at position i of
\* s, which makes its lower case the final sigma (U+03C2) and not the small
\* sigma (U+03C3): the nearest character before it that is not
\* case-ignorable is cased, and the nearest such character after it, if
\* there is one, is not
final_sigma(s, i) ==
  LET before == {j \in 1..(i - 1) : ~IsCaseIgnorable(s[j])}
      after == {j \in (i + 1)..Len(s) : ~IsCaseIgnorable(s[j])}
      last == CHOOSE j \in before : \A k \in before : k <= j
      next == CHOOSE j \in after : \A k \in after : j <= k
  IN  /\ before # {} /\ IsCased(s[last])
      /\ after = {} \/ ~IsCased(s[next])

RECURSIVE lower_from(_, _, _)
lower_from(s, lo, hi) ==
  IF lo > hi THEN <<>>
  ELSE IF lo = hi
    THEN IF s[lo] = 931
           THEN <<IF final_sigma(s, lo) THEN 962 ELSE 963>>
           ELSE lower_char(s[lo])
  ELSE lower_from(s, lo, (lo + hi) \div 2)
       \o lower_from(s, (lo + hi) \div 2 + 1, hi)

\* str.lower()
lower(s) == lower_from(s, 1, Len(s))

RECURSIVE lstrip_chars(_, _)
lstrip_chars(s, chars) ==
  IF s # <<>> /\ Head(s) \in chars THEN lstrip_chars(Tail(s), chars) ELSE s

RECURSIVE rstrip_chars(_, _)
rstrip_chars(s, chars) ==
  IF s # <<>> /\ s[Len(s)] \in chars
    THEN rstrip_chars(SubSeq(s, 1, Len(s) - 1), chars) ELSE s

\* str.strip() without an argument
strip(s) == rstrip_chars(lstrip_chars(s, Whitespace), Whitespace)

WindowChars(w) ==
  IF w = "24h" THEN Str(<<"2", "4", "h">>) ELSE Str(<<"7", "d">>)

\* the window arguments callers pass, None or a string: "24h", "7d",
\* " 7D ", "\t24H\n", "7d\r", "\f24H\x1f", "\u20037D\u3000" (EM SPACE, IDEOGRAPHIC SPACE),
\* "24H\u03a3" (a capital sigma, lowered to its final form), "30d", "ALL"
\* and ""
WindowArgs ==
  {None} \cup
  { Some(raw) : raw \in
  { Str(<<"2", "4", "h">>), Str(<<"7", "d">>), Str(<<" ", "7", "D", " ">>),
    <<9>> \o Str(<<"2", "4", "H">>) \o <<10>>, Str(<<"7", "d">>) \o <<13>>,
    <<12>> \o Str(<<"2", "4", "H">>) \o <<31>>,
    <<8195>> \o Str(<<"7", "D">>) \o <<12288>>,
    Str(<<"2", "4", "H">>) \o <<931>>,
    Str(<<"3", "0", "d">>), Str(<<"A", "L", "L">>), <<>> } }
\* the few of them passed where the analysis store or the share table is
\* at work beside the cache: None, "24h", "\t24H\n" and "30d"
FewWindowArgs ==
  { None, Some(Str(<<"2", "4", "h">>)),
    Some(<<9>> \o Str(<<"2", "4", "H">>) \o <<10>>),
    Some(Str(<<"3", "0", "d">>)) }
\* the overrides passed with a share token: None, "", "\t24H\n", "7d", "30d"
OverrideArgs ==
  { None, Some(<<>>), Some(<<9>> \o Str(<<"2", "4", "H">>) \o <<10>>),
    Some(Str(<<"7", "d">>)), Some(Str(<<"3", "0", "d">>)) }

\* faulty variant: the value is compared as given, untrimmed and in its case
validate_window_exact(value) ==
  IF value = None \/ TheOne(value) = <<>>
    THEN None
    ELSE {w \in SUPPORTED_WINDOWS : WindowChars(w) = TheOne(value)}

\* validate_window(value: str | None): the supported window, or None where
\* the code raises ValueError
validate_window(value) ==
  IF value = None \/ TheOne(value) = <<>>
    THEN None
    ELSE LET normalised == lower(strip(TheOne(value)))
         IN  IF \E w \in SUPPORTED_WINDOWS : WindowChars(w) = normalised
               THEN {w \in SUPPORTED_WINDOWS : WindowChars(w) = normalised}
               ELSE None

\* ---------------------------------------------------------- generator.py
\* One clause of the summary text: its wording and the numbers and names
\* formatted into it.
Clause(text, nums, words) == [text |-> text, nums |-> nums, words |-> words]

\* generator._format_top_labels: the labels of top_labels[:3]; one name is
\* written alone, several as ", ".join(names[:-1]) (X) and names[-1] (Y)
_format_top_labels(top_labels) ==
  LET names == [i \in 1..(IF Len(top_labels) < 3 THEN Len(top_labels) ELSE 3)
                  |-> top_labels[i].label]
  IN  IF top_labels = <<>> THEN <<>>
      ELSE IF Len(names) = 1
        THEN <<Clause("Dominant activity: X.", <<>>, names)>>
        ELSE <<Clause("Dominant activity: X, and Y.", <<>>, names)>>

\* generator._format_delta
_format_delta(delta) ==
  LET abs(n) == IF n < 0 THEN 0 - n ELSE n
  IN
  (IF delta.analyses # 0
     THEN <<Clause("Total analyses T by N compared to the prior window.",
                   <<abs(delta.analyses)>>,
                   <<IF delta.analyses > 0
                       THEN Str(<<"i", "n", "c", "r", "e", "a", "s", "e", "d">>)
                       ELSE Str(<<"d", "e", "c", "r", "e", "a", "s", "e",
                                  "d">>)>>)>>
     ELSE <<>>)
  \o
  (IF delta.high_severity # 0
     THEN <<Clause("High-severity incidents T by N.",
                   <<abs(delta.high_severity)>>,
                   <<IF delta.high_severity > 0
                       THEN Str(<<"r", "o", "s", "e">>)
                       ELSE Str(<<"f", "e", "l", "l">>)>>)>>
     ELSE <<>>)

\* SummaryGenerator.build_fallback: the text as its sequence of clauses
build_fallback(aggregated) ==
  LET t == aggregated.severity_totals
      total_events == t.low + t.medium + t.high
  IN  IF total_events = 0
        THEN <<Clause("No significant events were detected in the selected window.",
                      <<>>, <<>>)>>
        ELSE <<Clause("N notable moments were recorded over W.",
                      <<total_events>>,
                      <<IF aggregated.window = "24h"
                          THEN Str(<<"t", "h", "e", " ", "p", "a", "s", "t", " ",
                                     "2", "4", " ", "h", "o", "u", "r", "s">>)
                          ELSE Str(<<"t", "h", "e", " ", "p", "a", "s", "t", " ",
                                     "7", " ", "d", "a", "y", "s">>)>>)>>
             \o (IF t.high > 0
                   THEN <<Clause("High-severity events occurred H time(s), alongside M medium and L low severity occurrences.",
                                 <<t.high, t.medium, t.low>>, <<>>)>>
                   ELSE <<Clause("Most activity remained low impact (L low, M medium severity).",
                                 <<t.low, t.medium>>, <<>>)>>)
             \o _format_top_labels(aggregated.top_labels)
             \o (IF aggregated.delta # None
                   THEN _format_delta(TheOne(aggregated.delta))
                   ELSE <<>>)

\* --------------------------------------------------------- aggregator.py
\* The aggregator reads created_at and moments of a record of the analysis
\* table; a moment is a dict whose "severity" and "label" are a str or
\* missing (moment.get returns None): [severity, label] of optional strs.

\* aggregate: "bucket_count = 24 if window == "24h" else 7"
BucketCount(window) == IF window = "24h" THEN 24 ELSE 7
\* aggregate: "bucket_size = timedelta(hours=1) if ... else timedelta(days=1)"
BucketSize(window) == IF window = "24h" THEN Hour ELSE Day

\* _window_duration
_window_duration(window) == IF window = "24h" THEN 24 * Hour ELSE 7 * Day

\* _truncate_datetime
_truncate_datetime(value, quantum) ==
  IF quantum >= Day THEN value - (value % Day)
  ELSE IF quantum >= Hour THEN value - (value % Hour)
  ELSE value

\* faulty variant: steps back one bucket too many
_align_start_off(current, bucket_size, bucket_count) ==
  _truncate_datetime(current, bucket_size) - bucket_size * bucket_count

\* _align_start
_align_start(current, bucket_size, bucket_count) ==
  LET aligned == _truncate_datetime(current, bucket_size)
  IN  aligned - bucket_size * (bucket_count - 1)

\* _bucket_for: the edge the record falls on, or None
_bucket_for(created_at, bucket_size, bucket_edges) ==
  LET ts == _truncate_datetime(created_at, bucket_size)
  IN  IF \E i \in DOMAIN bucket_edges : bucket_edges[i] = ts
        THEN Some(ts) ELSE None

\* _SEVERITY_ORDER: the keys are strs, the values the three literals
_SEVERITY_ORDER ==
  [k \in {Str(<<"l", "o", "w">>), Str(<<"m", "e", "d", "i", "u", "m">>),
          Str(<<"m", "i", "d">>), Str(<<"m", "e", "d">>),
          Str(<<"h", "i", "g", "h">>), Str(<<"s", "e", "v", "e", "r", "e">>)} |->
     IF k = Str(<<"l", "o", "w">>) THEN "low"
     ELSE IF k \in {Str(<<"h", "i", "g", "h">>),
                    Str(<<"s", "e", "v", "e", "r", "e">>)} THEN "high"
     ELSE "medium"]

\* _SEVERITY_WEIGHT
_SEVERITY_WEIGHT == [k \in {"low", "medium", "high"} |->
                       IF k = "low" THEN 0 ELSE IF k = "medium" THEN 1 ELSE 2]

\* _normalize_severity: _SEVERITY_ORDER.get(value.strip().lower())
_normalize_severity(value) ==
  LET get(normalized) ==
        IF normalized \in DOMAIN _SEVERITY_ORDER
          THEN Some(_SEVERITY_ORDER[normalized]) ELSE None
  IN  IF value = None THEN None ELSE get(lower(strip(TheOne(value))))

\* str.title(), the title case of one character: the one-to-one mappings of
\* the Unicode character database as <<first, last, step, offset>>, and the
\* characters whose title case is several characters
TitleRanges ==
  {
    <<97, 122, 1, -32>>, <<181, 181, 1, 743>>, <<224, 246, 1, -32>>,
    <<248, 254, 1, -32>>, <<255, 255, 1, 121>>, <<257, 303, 2, -1>>,
    <<305, 305, 1, -232>>, <<307, 311, 2, -1>>, <<314, 328, 2, -1>>,
    <<331, 375, 2, -1>>, <<378, 382, 2, -1>>, <<383, 383, 1, -300>>,
    <<384, 384, 1, 195>>, <<387, 389, 2, -1>>, <<392, 392, 1, -1>>,
    <<396, 396, 1, -1>>, <<402, 402, 1, -1>>, <<405, 405, 1, 97>>,
    <<409, 409, 1, -1>>, <<410, 410, 1, 163>>, <<414, 414, 1, 130>>,
    <<417, 421, 2, -1>>, <<424, 424, 1, -1>>, <<429, 429, 1, -1>>,
    <<432, 432, 1, -1>>, <<436, 438, 2, -1>>, <<441, 441, 1, -1>>,
    <<445, 445, 1, -1>>, <<447, 447, 1, 56>>, <<452, 452, 1, 1>>,
    <<454, 454, 1, -1>>, <<455, 455, 1, 1>>, <<457, 457, 1, -1>>,
    <<458, 458, 1, 1>>, <<460, 476, 2, -1>>, <<477, 477, 1, -79>>,
    <<479, 495, 2, -1>>, <<497, 497, 1, 1>>, <<499, 501, 2, -1>>,
    <<505, 543, 2, -1>>, <<547, 563, 2, -1>>, <<572, 572, 1, -1>>,
    <<575, 576, 1, 10815>>, <<578, 578, 1, -1>>, <<583, 591, 2, -1>>,
    <<592, 592, 1, 10783>>, <<593, 593, 1, 10780>>, <<594, 594, 1, 10782>>,
    <<595, 595, 1, -210>>, <<596, 596, 1, -206>>, <<598, 599, 1, -205>>,
    <<601, 601, 1, -202>>, <<603, 603, 1, -203>>, <<604, 604, 1, 42319>>,
    <<608, 608, 1, -205>>, <<609, 609, 1, 42315>>, <<611, 611, 1, -207>>,
    <<613, 613, 1, 42280>>, <<614, 614, 1, 42308>>, <<616, 616, 1, -209>>,
    <<617, 617, 1, -211>>, <<618, 618, 1, 42308>>, <<619, 619, 1, 10743>>,
    <<620, 620, 1, 42305>>, <<623, 623, 1, -211>>, <<625, 625, 1, 10749>>,
    <<626, 626, 1, -213>>, <<629, 629, 1, -214>>, <<637, 637, 1, 10727>>,
    <<640, 640, 1, -218>>, <<642, 642, 1, 42307>>, <<643, 643, 1, -218>>,
    <<647, 647, 1, 42282>>, <<648, 648, 1, -218>>, <<649, 649, 1, -69>>,
    <<650, 651, 1, -217>>, <<652, 652, 1, -71>>, <<658, 658, 1, -219>>,
    <<669, 669, 1, 42261>>, <<670, 670, 1, 42258>>, <<837, 837, 1, 84>>,
    <<881, 883, 2, -1>>, <<887, 887, 1, -1>>, <<891, 893, 1, 130>>,
    <<940, 940, 1, -38>>, <<941, 943, 1, -37>>, <<945, 961, 1, -32>>,
    <<962, 962, 1, -31>>, <<963, 971, 1, -32>>, <<972, 972, 1, -64>>,
    <<973, 974, 1, -63>>, <<976, 976, 1, -62>>, <<977, 977, 1, -57>>,
    <<981, 981, 1, -47>>, <<982, 982, 1, -54>>, <<983, 983, 1, -8>>,
    <<985, 1007, 2, -1>>, <<1008, 1008, 1, -86>>, <<1009, 1009, 1, -80>>,
    <<1010, 1010, 1, 7>>, <<1011, 1011, 1, -116>>, <<1013, 1013, 1, -96>>,
    <<1016, 1016, 1, -1>>, <<1019, 1019, 1, -1>>, <<1072, 1103, 1, -32>>,
    <<1104, 1119, 1, -80>>, <<1121, 1153, 2, -1>>, <<1163, 1215, 2, -1>>,
    <<1218, 1230, 2, -1>>, <<1231, 1231, 1, -15>>, <<1233, 1327, 2, -1>>,
    <<1377, 1414, 1, -48>>, <<5112, 5117, 1, -8>>, <<7296, 7296, 1, -6254>>,
    <<7297, 7297, 1, -6253>>, <<7298, 7298, 1, -6244>>,
    <<7299, 7300, 1, -6242>>, <<7301, 7301, 1, -6243>>,
    <<7302, 7302, 1, -6236>>, <<7303, 7303, 1, -6181>>,
    <<7304, 7304, 1, 35266>>, <<7545, 7545, 1, 35332>>,
    <<7549, 7549, 1, 3814>>, <<7566, 7566, 1, 35384>>, <<7681, 7829, 2, -1>>,
    <<7835, 7835, 1, -59>>, <<7841, 7935, 2, -1>>, <<7936, 7943, 1, 8>>,
    <<7952, 7957, 1, 8>>, <<7968, 7975, 1, 8>>, <<7984, 7991, 1, 8>>,
    <<8000, 8005, 1, 8>>, <<8017, 8023, 2, 8>>, <<8032, 8039, 1, 8>>,
    <<8048, 8049, 1, 74>>, <<8050, 8053, 1, 86>>, <<8054, 8055, 1, 100>>,
    <<8056, 8057, 1, 128>>, <<8058, 8059, 1, 112>>, <<8060, 8061, 1, 126>>,
    <<8064, 8071, 1, 8>>, <<8080, 8087, 1, 8>>, <<8096, 8103, 1, 8>>,
    <<8112, 8113, 1, 8>>, <<8115, 8115, 1, 9>>, <<8126, 8126, 1, -7205>>,
    <<8131, 8131, 1, 9>>, <<8144, 8145, 1, 8>>, <<8160, 8161, 1, 8>>,
    <<8165, 8165, 1, 7>>, <<8179, 8179, 1, 9>>, <<8526, 8526, 1, -28>>,
    <<8560, 8575, 1, -16>>, <<8580, 8580, 1, -1>>, <<9424, 9449, 1, -26>>,
    <<11312, 11359, 1, -48>>, <<11361, 11361, 1, -1>>,
    <<11365, 11365, 1, -10795>>, <<11366, 11366, 1, -10792>>,
    <<11368, 11372, 2, -1>>, <<11379, 11379, 1, -1>>, <<11382, 11382, 1, -1>>,
    <<11393, 11491, 2, -1>>, <<11500, 11502, 2, -1>>, <<11507, 11507, 1, -1>>,
    <<11520, 11557, 1, -7264>>, <<11559, 11559, 1, -7264>>,
    <<11565, 11565, 1, -7264>>, <<42561, 42605, 2, -1>>,
    <<42625, 42651, 2, -1>>, <<42787, 42799, 2, -1>>, <<42803, 42863, 2, -1>>,
    <<42874, 42876, 2, -1>>, <<42879, 42887, 2, -1>>, <<42892, 42892, 1, -1>>,
    <<42897, 42899, 2, -1>>, <<42900, 42900, 1, 48>>, <<42903, 42921, 2, -1>>,
    <<42933, 42947, 2, -1>>, <<42952, 42954, 2, -1>>, <<42961, 42961, 1, -1>>,
    <<42967, 42969, 2, -1>>, <<42998, 42998, 1, -1>>,
    <<43859, 43859, 1, -928>>, <<43888, 43967, 1, -38864>>,
    <<65345, 65370, 1, -32>>, <<66600, 66639, 1, -40>>,
    <<66776, 66811, 1, -40>>, <<66967, 67003, 2, -39>>,
    <<66968, 66976, 2, -39>>, <<66980, 66992, 2, -39>>,
    <<66996, 67000, 2, -39>>, <<67004, 67004, 1, -39>>,
    <<68800, 68850, 1, -64>>, <<71872, 71903, 1, -32>>,
    <<93792, 93823, 1, -32>>, <<125218, 125251, 1, -34>>
  }

TitleSpecials ==
  {
    <<223, <<83, 115>>>>, <<329, <<700, 78>>>>, <<496, <<74, 780>>>>,
    <<912, <<921, 776, 769>>>>, <<944, <<933, 776, 769>>>>,
    <<1415, <<1333, 1410>>>>, <<7830, <<72, 817>>>>, <<7831, <<84, 776>>>>,
    <<7832, <<87, 778>>>>, <<7833, <<89, 778>>>>, <<7834, <<65, 702>>>>,
    <<8016, <<933, 787>>>>, <<8018, <<933, 787, 768>>>>,
    <<8020, <<933, 787, 769>>>>, <<8022, <<933, 787, 834>>>>,
    <<8114, <<8122, 837>>>>, <<8116, <<902, 837>>>>, <<8118, <<913, 834>>>>,
    <<8119, <<913, 834, 837>>>>, <<8130, <<8138, 837>>>>,
    <<8132, <<905, 837>>>>, <<8134, <<919, 834>>>>,
    <<8135, <<919, 834, 837>>>>, <<8146, <<921, 776, 768>>>>,
    <<8147, <<921, 776, 769>>>>, <<8150, <<921, 834>>>>,
    <<8151, <<921, 776, 834>>>>, <<8162, <<933, 776, 768>>>>,
    <<8163, <<933, 776, 769>>>>, <<8164, <<929, 787>>>>,
    <<8166, <<933, 834>>>>, <<8167, <<933, 776, 834>>>>,
    <<8178, <<8186, 837>>>>, <<8180, <<911, 837>>>>, <<8182, <<937, 834>>>>,
    <<8183, <<937, 834, 837>>>>, <<64256, <<70, 102>>>>,
    <<64257, <<70, 105>>>>, <<64258, <<70, 108>>>>,
    <<64259, <<70, 102, 105>>>>, <<64260, <<70, 102, 108>>>>,
    <<64261, <<83, 116>>>>, <<64262, <<83, 116>>>>, <<64275, <<1348, 1398>>>>,
    <<64276, <<1348, 1381>>>>, <<64277, <<1348, 1387>>>>,
    <<64278, <<1358, 1398>>>>, <<64279, <<1348, 1389>>>>
  }

\* str.title(): a character that follows a cased character is lowered as
\* str.lower() lowers it in the whole string, any other takes its title case
RECURSIVE title_from(_, _, _)
title_from(s, lo, hi) ==
  IF lo > hi THEN <<>>
  ELSE IF lo = hi
    THEN IF lo > 1 /\ IsCased(s[lo - 1])
           THEN IF s[lo] = 931
                  THEN <<IF final_sigma(s, lo) THEN 962 ELSE 963>>
                  ELSE lower_char(s[lo])
           ELSE IF s[lo] < 128
             THEN <<IF 97 <= s[lo] /\ s[lo] <= 122 THEN s[lo] - 32
                                                   ELSE s[lo]>>
           ELSE IF \E t \in TitleSpecials : t[1] = s[lo]
             THEN (CHOOSE t \in TitleSpecials : t[1] = s[lo])[2]
           ELSE IF \E r \in TitleRanges :
                     /\ r[1] <= s[lo] /\ s[lo] <= r[2]
                     /\ (s[lo] - r[1]) % r[3] = 0
             THEN <<s[lo] + (CHOOSE r \in TitleRanges :
                               /\ r[1] <= s[lo] /\ s[lo] <= r[2]
                               /\ (s[lo] - r[1]) % r[3] = 0)[4]>>
           ELSE <<s[lo]>>
  ELSE title_from(s, lo, (lo + hi) \div 2)
       \o title_from(s, (lo + hi) \div 2 + 1, hi)
title(s) == title_from(s, 1, Len(s))

\* _MAX_LABEL_LENGTH
_MAX_LABEL_LENGTH == 80

\* _sanitize_label:
\*   value = (raw or "unknown").strip() or "unknown"
\*   normalized = value.title()
\*   normalized if it has at most 80 characters, else normalized[:80].rstrip()
_sanitize_label(raw) ==
  LET unknown == Str(<<"u", "n", "k", "n", "o", "w", "n">>)
      or_unknown(value) == IF value = <<>> THEN unknown ELSE value
      cut(normalized) ==
        IF Len(normalized) <= _MAX_LABEL_LENGTH
          THEN normalized
          ELSE rstrip_chars(SubSeq(normalized, 1, _MAX_LABEL_LENGTH),
                            Whitespace)
  IN  cut(title(or_unknown(strip(IF raw = None THEN unknown
                                               ELSE or_unknown(TheOne(raw))))))

\* the rows in "ORDER BY created_at ASC" order
RECURSIVE order_by_created_at(_)
order_by_created_at(rows) ==
  IF rows = <<>> THEN <<>>
  ELSE LET least == CHOOSE i \in DOMAIN rows :
                      \A j \in DOMAIN rows :
                        \/ rows[i].created_at < rows[j].created_at
                        \/ rows[i].created_at = rows[j].created_at /\ i <= j
           rest == [k \in 1..(Len(rows) - 1) |->
                      IF k < least THEN rows[k] ELSE rows[k + 1]]
       IN  <<rows[least]>> \o order_by_created_at(rest)

\* InsightAggregator._fetch_rows over the analysis table
_fetch_rows(table, since, until) ==
  order_by_created_at(
    SelectSeq(table,
              LAMBDA row : /\ row.created_at >= since
                           /\ until # None => row.created_at < TheOne(until)))

\* aggregate: "rows = await self._fetch_rows(session, since=bucket_start)"
\* finding the analysis table as it is
CurrentRows(window, table, current) ==
  _fetch_rows(table,
              _align_start(current, BucketSize(window), BucketCount(window)),
              None)

\* aggregate: "previous_rows = await self._fetch_rows(session,
\* since=bucket_start - duration, until=bucket_start)"
PreviousRows(window, table, current) ==
  LET fetch(bucket_start) ==
        _fetch_rows(table, bucket_start - _window_duration(window),
                    Some(bucket_start))
  IN  fetch(_align_start(current, BucketSize(window), BucketCount(window)))

\* aggregate, the inner loop "for moment in row.moments" on the tallies acc
\* for a row of bucket bucket_key; acc.saw_high is the loop's flag and
\* acc.label_counts the dict in insertion order, as [key, label, count,
\* weight] with key = label.lower()
RECURSIVE tally_moments(_, _, _)
tally_moments(moments, bucket_key, acc) ==
  IF moments = <<>> THEN acc
  ELSE
    LET counted(k, label, key) ==
          [acc EXCEPT
             !.severity_totals[k] = @ + 1,
             !.series_map[bucket_key].severity[k] = @ + 1,
             !.label_counts =
                IF \E i \in DOMAIN acc.label_counts :
                     acc.label_counts[i].key = key
                  THEN [i \in DOMAIN acc.label_counts |->
                          IF acc.label_counts[i].key = key
                            THEN [acc.label_counts[i] EXCEPT
                                    !.count = @ + 1,
                                    !.weight = @ + _SEVERITY_WEIGHT[k]]
                            ELSE acc.label_counts[i]]
                  ELSE Append(acc.label_counts,
                              [key |-> key, label |-> label, count |-> 1,
                               weight |-> _SEVERITY_WEIGHT[k]]),
             !.saw_high = @ \/ k = "high"]
        labelled(k, label) == counted(k, label, lower(label))
        one(severity_key) ==
          IF severity_key = None
            THEN acc
            ELSE labelled(TheOne(severity_key),
                          _sanitize_label(Head(moments).label))
    IN  tally_moments(Tail(moments), bucket_key,
                      one(_normalize_severity(Head(moments).severity)))

\* faulty variant: a bucket's total counts the events, not the analyses
bucket_increment_events(row) == Len(row.moments)

\* aggregate: "bucket_entry["total"] += 1"
bucket_increment(row) == 1

\* aggregate, the loop "for row in rows": a row whose timestamp falls on no
\* bucket edge is passed over by "continue" before anything is counted
RECURSIVE tally_rows(_, _, _, _)
tally_rows(rows, bucket_size, bucket_edges, acc) ==
  IF rows = <<>> THEN acc
  ELSE
    LET row == Head(rows)
        finish(seen, edge) ==
          [seen EXCEPT
             !.high_analyses = IF seen.saw_high THEN @ + 1 ELSE @,
             !.series_map[edge].total = @ + bucket_increment(row)]
        count(edge) ==
          finish(tally_moments(row.moments, edge,
                               [acc EXCEPT !.analyses = @ + 1,
                                           !.saw_high = FALSE]),
                 edge)
        one(bucket_key) ==
          IF bucket_key = None THEN acc ELSE count(TheOne(bucket_key))
    IN  tally_rows(Tail(rows), bucket_size, bucket_edges,
                   one(_bucket_for(row.created_at, bucket_size, bucket_edges)))

\* _build_top_labels, "items.sort(key=lambda item: (-item.count,
\* item.label))": a stable sort, labels compared as strs are (character
\* by character, by code point)
RECURSIVE sort_labels(_)
sort_labels(items) ==
  IF items = <<>> THEN <<>>
  ELSE LET less(a, b) ==
             \E i \in 1..Len(b) :
               /\ i <= Len(a) + 1
               /\ \A j \in 1..(i - 1) : a[j] = b[j]
               /\ i > Len(a) \/ a[i] < b[i]
           before(x, y) ==
             \/ x.count > y.count
             \/ x.count = y.count /\ less(x.label, y.label)
           first == CHOOSE i \in DOMAIN items :
                      \A j \in DOMAIN items :
                        \/ j = i
                        \/ before(items[i], items[j])
                        \/ ~before(items[j], items[i]) /\ i < j
       IN  <<items[first]>>
           \o sort_labels([k \in 1..(Len(items) - 1) |->
                             IF k < first THEN items[k] ELSE items[k + 1]])

\* _build_top_labels: the first five of the sorted items; avg_severity, the
\* float weight / count, is kept as that fraction in lowest terms.
\* InsightTopLabel validates each item: the label is stripped
\* (_normalize_label); its other checks (a blank label, one over 80
\* characters, an average outside [0, 2]) never fail on what
\* _sanitize_label and the weights 0, 1, 2 produce
_build_top_labels(label_counts) ==
  LET gcd(a, b) == CHOOSE d \in 1..b :
                     /\ a % d = 0 /\ b % d = 0
                     /\ \A e \in (d + 1)..b : a % e # 0 \/ b % e # 0
      average(weight, count, d) ==
        [num |-> weight \div d, den |-> count \div d]
      items == [i \in DOMAIN label_counts |->
                  [label |-> strip(label_counts[i].label),
                   count |-> label_counts[i].count,
                   avg_severity |->
                     IF label_counts[i].count > 0
                       THEN Some(average(label_counts[i].weight,
                                         label_counts[i].count,
                                         gcd(label_counts[i].weight,
                                             label_counts[i].count)))
                       ELSE None]]
      first_five(sorted) ==
        SubSeq(sorted, 1, IF Len(sorted) < 5 THEN Len(sorted) ELSE 5)
  IN  first_five(sort_labels(items))

RECURSIVE FlattenMoments(_)
FlattenMoments(rows) ==
  IF rows = <<>> THEN <<>>
  ELSE Head(rows).moments \o FlattenMoments(Tail(rows))

\* _count_high: the rows with at least one high-severity moment
_count_high(rows) ==
  Len(SelectSeq(rows,
                LAMBDA row :
                  \E i \in DOMAIN row.moments :
                    _normalize_severity(row.moments[i].severity)
                      = Some("high")))

\* InsightAggregator.aggregate(window, now=current), from the lists its two
\* SELECTs have returned (rows and previous_rows) to its return
aggregate(window, rows, previous_rows, current) ==
  LET bucket_count == BucketCount(window)
      bucket_size == BucketSize(window)
      bucket_start == _align_start(current, bucket_size, bucket_count)
      \* "bucket_edges = [bucket_start + i * bucket_size for i in
      \* range(bucket_count)]"
      bucket_edges ==
        [i \in 1..bucket_count |-> bucket_start + (i - 1) * bucket_size]
      zero == [low |-> 0, medium |-> 0, high |-> 0]
      start == [series_map |->
                  [edge \in {bucket_edges[i] : i \in DOMAIN bucket_edges} |->
                     [total |-> 0, severity |-> zero]],
                severity_totals |-> zero,
                label_counts |-> <<>>,
                analyses |-> 0,
                high_analyses |-> 0,
                saw_high |-> FALSE]
      previous_analyses == Len(previous_rows)
      previous_high == _count_high(previous_rows)
      \* the return statement, on the tallies the loop has left
      result(out) ==
        [window |-> window,
         generated_at |-> current,
         severity_totals |-> out.severity_totals,
         series |-> [i \in DOMAIN bucket_edges |->
                       [bucket_start |-> bucket_edges[i],
                        total |-> out.series_map[bucket_edges[i]].total,
                        severity |-> out.series_map[bucket_edges[i]].severity]],
         top_labels |-> _build_top_labels(out.label_counts),
         analyses |-> out.analyses,
         high_severity_analyses |-> out.high_analyses,
         delta |-> IF out.analyses # 0 \/ previous_analyses # 0
                     THEN Some([analyses |-> out.analyses - previous_analyses,
                                high_severity |->
                                  out.high_analyses - previous_high])
                     ELSE None]
  IN  TheOne({result(out) :
                out \in {tally_rows(rows, bucket_size, bucket_edges, start)}})

\* ---------------------------------------------------------- service.py
\* InsightService._build_snapshot, from the lists aggregate's two SELECTs
\* have returned, with current the instant aggregate took as now
_build_snapshot(window, rows, previous_rows, current) ==
  LET InsightResponse(aggregated) ==
        [window |-> aggregated.window,
         generated_at |-> aggregated.generated_at,
         summary |-> build_fallback(aggregated),
         summary_source |-> "fallback",
         severity_totals |-> aggregated.severity_totals,
         series |-> aggregated.series,
         top_labels |-> aggregated.top_labels,
         delta |-> aggregated.delta,
         cache_expires_at |-> None]
  IN  TheOne({InsightResponse(aggregated) :
                aggregated \in {aggregate(window, rows, previous_rows,
                                          current)}})

\* the snapshot _build_snapshot returns when both SELECTs find the analysis
\* table as it is
Snapshot(window, table, current) ==
  _build_snapshot(window, CurrentRows(window, table, current),
                  PreviousRows(window, table, current), current)

\* faulty variant: the cached value is returned as it is
_response_without_expiry(entry) == [response |-> entry.value, entry |-> entry]

\* InsightService._response_with_expiry: the response handed to the caller
\* and the entry object as the method leaves it (entry.value = response)
_response_with_expiry(entry) ==
  LET value == entry.value
      response == IF value.cache_expires_at # entry.expires_at
                    THEN [value EXCEPT !.cache_expires_at = entry.expires_at]
                    ELSE value
  IN  [response |-> response, entry |-> [entry EXCEPT !.value = response]]

\* InsightResponse.model_dump(mode="json"): datetimes become ISO-8601 strings
json_time(t) == [iso8601 |-> t]
model_dump(snapshot) ==
  [snapshot EXCEPT
     !.generated_at = json_time(snapshot.generated_at),
     !.series = [i \in DOMAIN snapshot.series |->
                   [snapshot.series[i] EXCEPT !.bucket_start = json_time(@)]],
     !.cache_expires_at = {json_time(t) : t \in snapshot.cache_expires_at}]

\* InsightSnapshot: the fields without a default
RequiredFields ==
  {"window", "generated_at", "summary", "summary_source", "severity_totals",
   "series"}

\* InsightResponse.model_validate on a JSON object whose values have the
\* types of their fields: the parsed snapshot, a missing top_labels, delta
\* or cache_expires_at taking its default, or None where pydantic raises
\* ValidationError (a required field missing, a key that is no field under
\* extra="forbid", a window or summary_source outside its Literal)
model_validate(payload) ==
  IF /\ RequiredFields \subseteq DOMAIN payload
     /\ DOMAIN payload \subseteq
          RequiredFields \cup {"top_labels", "delta", "cache_expires_at"}
     /\ payload.window \in SUPPORTED_WINDOWS
     /\ payload.summary_source \in {"hafnia", "fallback"}
    THEN Some([window |-> payload.window,
               generated_at |-> payload.generated_at.iso8601,
               summary |-> payload.summary,
               summary_source |-> payload.summary_source,
               severity_totals |-> payload.severity_totals,
               series |-> [i \in DOMAIN payload.series |->
                             [payload.series[i] EXCEPT
                                !.bucket_start = @.iso8601]],
               top_labels |-> IF "top_labels" \in DOMAIN payload
                                THEN payload.top_labels ELSE <<>>,
               delta |-> IF "delta" \in DOMAIN payload
                           THEN payload.delta ELSE None,
               cache_expires_at |->
                 IF "cache_expires_at" \in DOMAIN payload
                   THEN {j.iso8601 : j \in payload.cache_expires_at}
                   ELSE None])
    ELSE None

\* ------------------------------------------------------ share_store.py
\* the tokens secrets.token_urlsafe(16) can return, and their characters
Tokens == {"tok1", "tok2"}
TokenChars(token) ==
  Str(<<"t", "o", "k">>) \o Str(<<IF token = "tok1" THEN "1" ELSE "2">>)
token_salt == "clipnotes-share-token"

\* faulty variant: the token itself is used as the key
_hash_token_plain(token) == <<token>>

\* InsightShareStore._hash_token
_hash_token(token) == <<"sha256", token_salt, ":", token>>
Hashes == {_hash_token(t) : t \in Tokens}
\* faulty variant: one attempt too many
MaxAttemptsSlack == 5 + 1
\* share_store.py: "if attempt >= 5"
MaxAttempts == 5

\* A session holds the row it loaded as an object (record) and, for the
\* commit to come, the columns that were assigned a value differing from the
\* loaded one (dirty): the UPDATE the commit flushes sets those columns only.
\* A reading of the clock is an instant no row holds yet, so a timestamp
\* taken from the clock always counts as modified.

\* InsightShareModel(...) in create_share, as the INSERT writes it at time
\* t: created_at takes its column default when the INSERT is flushed
InsightShareModel(token_hash, window, payload, expires_at, t) ==
  [token_hash |-> token_hash, window |-> window, payload |-> payload,
   expires_at |-> expires_at, created_at |-> t, last_accessed_at |-> None]

\* "await session.commit()" of a session that loaded a row: the UPDATE sets
\* the dirty columns of the row, as the table holds it now, to the values
\* of the session's object
flush(Sh, record, dirty) ==
  [Sh EXCEPT ![record.token_hash] =
     Some([col \in DOMAIN TheOne(@) |->
             IF col \in dirty THEN record[col] ELSE TheOne(@)[col]])]

\* faulty variant: the row's window is overwritten from the payload as well
update_payload_rewindowed(record, payload, cache_expires_at, t) ==
  [record |-> [record EXCEPT !.payload = payload,
                             !.window = payload.window,
                             !.expires_at = cache_expires_at,
                             !.last_accessed_at = Some(t)],
   dirty |-> {"last_accessed_at", "window"}
             \cup (IF payload # record.payload THEN {"payload"} ELSE {})
             \cup (IF cache_expires_at # record.expires_at
                     THEN {"expires_at"} ELSE {})]

\* InsightShareStore.update_payload, the assignments to the record loaded,
\* made at time t: the session's object and its modified columns
update_payload(record, payload, cache_expires_at, t) ==
  [record |-> [record EXCEPT !.payload = payload,
                             !.expires_at = cache_expires_at,
                             !.last_accessed_at = Some(t)],
   dirty |-> {"last_accessed_at"}
             \cup (IF payload # record.payload THEN {"payload"} ELSE {})
             \cup (IF cache_expires_at # record.expires_at
                     THEN {"expires_at"} ELSE {})]

\* faulty variant: an unknown token gets a row of its own
get_share_upsert(Sh, token, t) ==
  LET token_hash == _hash_token(token)
      fresh == [token_hash |-> token_hash, window |-> "24h",
                payload |-> [window |-> "24h"], expires_at |-> None,
                created_at |-> t, last_accessed_at |-> None]
      row == IF Sh[token_hash] = None THEN fresh ELSE TheOne(Sh[token_hash])
  IN  [status |-> "ok",
       record |-> Some([row EXCEPT !.last_accessed_at = Some(t)]),
       dirty |-> {"last_accessed_at"},
       shares |-> [Sh EXCEPT ![token_hash] = Some(row)], err |-> ""]

\* InsightShareStore.get_share on the table Sh, from the row "await
\* session.get" has returned at time t to "await session.commit()": what it
\* raises, or the session's object with last_accessed_at assigned, and the
\* table it leaves
get_share(Sh, token, t) ==
  LET token_hash == _hash_token(token)
  IN  IF Sh[token_hash] = None
        THEN [status |-> "raised", record |-> None, dirty |-> {},
              shares |-> Sh, err |-> "ShareTokenNotFoundError"]
        ELSE [status |-> "ok",
              record |-> Some([TheOne(Sh[token_hash]) EXCEPT
                                 !.last_accessed_at = Some(t)]),
              dirty |-> {"last_accessed_at"},
              shares |-> Sh, err |-> ""]

\* faulty variant: the window check is skipped
window_matches_any(window, stored) == TRUE

\* service.get_shared_snapshot, the window check:
\*   window_override = validate_window(window) if window else record.window
\*   if window_override != record.window: raise ValueError
\* TRUE where the check passes; validate_window's own ValueError fails it too
window_matches(window, stored) ==
  LET falsy == window = None \/ TheOne(window) = <<>>
      window_override == IF falsy THEN Some(stored)
                                  ELSE validate_window(window)
  IN  window_override = Some(stored)

\* str.find(ch), counted from 1: 0 where Python returns -1
find(s, cp) ==
  IF \E i \in DOMAIN s : s[i] = cp
    THEN CHOOSE i \in DOMAIN s : s[i] = cp /\ \A j \in 1..(i - 1) : s[j] # cp
    ELSE 0

\* str.split(sep) for a separator of one character
RECURSIVE split(_, _)
split(s, sep) ==
  IF find(s, sep) = 0 THEN <<s>>
  ELSE <<SubSeq(s, 1, find(s, sep) - 1)>>
       \o split(SubSeq(s, find(s, sep) + 1, Len(s)), sep)

\* urllib.parse._check_bracketed_host(hostname): TRUE where it returns, FALSE
\* where it raises ValueError.  A host starting with "v" must match
\* \Av[a-fA-F0-9]+\..+\Z (no "\n" is left in the URL by then); any other
\* must be what ipaddress.ip_address takes for an IPv6 address.
_check_bracketed_host(hostname) ==
  LET hex_digits == (48..57) \cup (65..70) \cup (97..102)
      \* IPv4Address._parse_octet
      octet(o) ==
        /\ o # <<>>
        /\ \A k \in DOMAIN o : o[k] \in 48..57
        /\ Len(o) <= 3
        /\ Len(o) > 1 => o[1] # 48
        /\ Len(o) = 3 => (o[1] - 48) * 100 + (o[2] - 48) * 10 + (o[3] - 48) <= 255
      \* IPv4Address._ip_int_from_string
      octets_ok(octets) ==
        Len(octets) = 4 /\ \A i \in DOMAIN octets : octet(octets[i])
      ipv4(address) == address # <<>> /\ octets_ok(split(address, ord(".")))
      \* IPv6Address._parse_hextet; int("", 16) raises as well
      hextet(h) ==
        h # <<>> /\ Len(h) <= 4 /\ \A k \in DOMAIN h : h[k] \in hex_digits
      \* IPv6Address._ip_int_from_string, from "_max_parts" on; an IPv4
      \* suffix has been replaced by its two hextets
      hextets_ok(parts, skips) ==
        /\ Len(parts) <= 9
        /\ Cardinality(skips) <= 1
        /\ IF skips # {}
             THEN LET skip_index == (CHOOSE i \in skips : TRUE) - 1
                      hi == IF parts[1] = <<>> THEN skip_index - 1
                                               ELSE skip_index
                      lo == IF parts[Len(parts)] = <<>>
                              THEN Len(parts) - skip_index - 2
                              ELSE Len(parts) - skip_index - 1
                  IN  /\ parts[1] = <<>> => hi = 0
                      /\ parts[Len(parts)] = <<>> => lo = 0
                      /\ 8 - (hi + lo) >= 1
                      /\ \A i \in 1..hi : hextet(parts[i])
                      /\ \A i \in (Len(parts) - lo + 1)..Len(parts) :
                           hextet(parts[i])
             ELSE /\ Len(parts) = 8
                  /\ \A i \in DOMAIN parts : hextet(parts[i])
      with_suffix(parts) ==
        IF find(parts[Len(parts)], ord(".")) # 0
          THEN SubSeq(parts, 1, Len(parts) - 1) \o <<Str(<<"0">>), Str(<<"0">>)>>
          ELSE parts
      skipped(parts) == hextets_ok(parts, {i \in 2..(Len(parts) - 1) : parts[i] = <<>>})
      parts_ok(parts) ==
        /\ Len(parts) >= 3
        /\ find(parts[Len(parts)], ord(".")) # 0 => ipv4(parts[Len(parts)])
        /\ skipped(with_suffix(parts))
      \* IPv6Address._split_scope_id and _ip_int_from_string
      ipv6(address) ==
        LET at == find(address, ord("%"))
            scope_id == SubSeq(address, at + 1, Len(address))
            addr_str == IF at = 0 THEN address ELSE SubSeq(address, 1, at - 1)
        IN  /\ at # 0 => scope_id # <<>> /\ find(scope_id, ord("%")) = 0
            /\ addr_str # <<>>
            /\ parts_ok(split(addr_str, ord(":")))
  IN  IF hostname # <<>> /\ hostname[1] = ord("v")
        THEN \E k \in 2..(Len(hostname) - 2) :
               /\ \A j \in 2..k : hostname[j] \in hex_digits
               /\ hostname[k + 1] = ord(".")
        ELSE ~ipv4(hostname) /\ ipv6(hostname)

\* urllib.parse._checknetloc(netloc): TRUE where it returns, FALSE where it
\* raises ValueError: the netloc, without its "@", ":", "#" and "?", holds
\* one of "/?#@:" once it is NFKC-normalised.  Those five characters join
\* in no composition, so that is: the netloc holds a character whose own
\* normalisation (unicodedata, Unicode 14.0.0) holds one of them.
_checknetloc(netloc) ==
  \A k \in DOMAIN netloc :
    netloc[k] \notin {8263, 8264, 8265, 8448, 8449, 8453, 8454, 10868, 65043,
                      65046, 65109, 65110, 65119, 65131, 65283, 65295, 65306,
                      65311, 65312}

\* urllib.parse.urlsplit(url): the scheme and the netloc of the result, and
\* err = "ValueError" where it raises: a netloc with one square bracket but
\* not the other ("Invalid IPv6 URL"), a bracketed host that is no IPv6 or
\* IPvFuture address, a netloc that _checknetloc rejects
urlsplit(url) ==
  LET \* _WHATWG_C0_CONTROL_OR_SPACE, _UNSAFE_URL_BYTES_TO_REMOVE ("\t",
      \* "\r", "\n") and scheme_chars (letters, digits, "+", "-", ".")
      c0_control_or_space == 0..32
      unsafe_url_bytes == {9, 13, 10}
      letters == (ord("a")..ord("z")) \cup (ord("A")..ord("Z"))
      scheme_chars ==
        letters \cup (ord("0")..ord("9")) \cup {ord("+"), ord("-"), ord(".")}
      \* _splitnetloc(url, 2): up to the first of "/", "?" and "#"
      split_netloc(scheme, rest) ==
        LET delims ==
              {k \in 3..Len(rest) : rest[k] \in {ord("/"), ord("?"), ord("#")}}
            netloc ==
              IF Len(rest) >= 2 /\ rest[1] = ord("/") /\ rest[2] = ord("/")
                THEN SubSeq(rest, 3,
                            (CHOOSE k \in delims \cup {Len(rest) + 1} :
                               \A j \in delims : k <= j) - 1)
                ELSE <<>>
        IN  [scheme |-> scheme, netloc |-> netloc]
      \* "bracketed_host = netloc.partition('[')[2].partition(']')[0]"
      up_to_bracket(after) ==
        IF find(after, ord("]")) = 0
          THEN after ELSE SubSeq(after, 1, find(after, ord("]")) - 1)
      bracketed_host(netloc) ==
        up_to_bracket(SubSeq(netloc, find(netloc, ord("[")) + 1, Len(netloc)))
      brackets_ok(netloc, open, close) ==
        /\ (open = 0) = (close = 0)
        /\ open # 0 => _check_bracketed_host(bracketed_host(netloc))
      checked(parsed) ==
        [scheme |-> parsed.scheme, netloc |-> parsed.netloc,
         err |-> IF /\ brackets_ok(parsed.netloc, find(parsed.netloc, ord("[")),
                                   find(parsed.netloc, ord("]")))
                    /\ _checknetloc(parsed.netloc)
                   THEN "" ELSE "ValueError"]
      split_scheme(stripped, i) ==
        IF /\ i > 1
           /\ stripped[1] \in letters
           /\ \A k \in 1..(i - 1) : stripped[k] \in scheme_chars
          THEN split_netloc(lower(SubSeq(stripped, 1, i - 1)),
                            SubSeq(stripped, i + 1, Len(stripped)))
          ELSE split_netloc(<<>>, stripped)
      first_colon(stripped) ==
        checked(split_scheme(stripped, find(stripped, ord(":"))))
  IN  first_colon(SelectSeq(lstrip_chars(url, c0_control_or_space),
                            LAMBDA cp : cp \notin unsafe_url_bytes))

\* InsightService._build_share_url: the URL, or the error it raises:
\* RuntimeError("Share base URL is not configured") for None and for "",
\* urlsplit's ValueError
_build_share_url(base, token) ==
  LET build(parsed) ==
        IF parsed.err # ""
          THEN [url |-> None, err |-> parsed.err]
          ELSE [url |-> Some((IF parsed.scheme # <<>> /\ parsed.netloc # <<>>
                                THEN parsed.scheme \o Str(<<":", "/", "/">>)
                                       \o parsed.netloc
                                ELSE rstrip_chars(TheOne(base), {ord("/")}))
                               \o Str(<<"/", "s", "h", "a", "r", "e", "/">>)
                               \o TokenChars(token)),
                err |-> ""]
  IN  IF base = None \/ TheOne(base) = <<>>
        THEN [url |-> None, err |-> "RuntimeError"]
        ELSE build(urlsplit(TheOne(base)))

\* the share_base_url settings: None, "", "https://clipnotes.example.com/insights/",
\* "localhost:5173" (urlsplit finds the scheme "localhost" and no netloc),
\* "clipnotes.example.com/insights/" (neither) and
\* " HTTPS://Clipnotes.example.com" (the scheme is lowered),
\* "http://[::1]:5173" (a bracketed IPv6 host), "http://[a]" (a bracketed
\* host that is no address) and "http://clip" U+2100 "notes" (U+2100
\* normalises to "a/c")
BaseUrl ==
  Str(<<"h", "t", "t", "p", "s", ":", "/", "/", "c", "l", "i", "p", "n", "o",
      "t", "e", "s", ".", "e", "x", "a", "m", "p", "l", "e", ".", "c", "o",
      "m", "/", "i", "n", "s", "i", "g", "h", "t", "s", "/">>)
BaseUrls ==
  { None, Some(<<>>), Some(BaseUrl),
    Some(Str(<<"l", "o", "c", "a", "l", "h", "o", "s", "t", ":", "5", "1",
             "7", "3">>)),
    Some(Str(<<"c", "l", "i", "p", "n", "o", "t", "e", "s", ".", "e", "x", "a",
             "m", "p", "l", "e", ".", "c", "o", "m", "/", "i", "n", "s", "i",
             "g", "h", "t", "s", "/">>)),
    Some(Str(<<" ", "H", "T", "T", "P", "S", ":", "/", "/", "C", "l", "i", "p",
             "n", "o", "t", "e", "s", ".", "e", "x", "a", "m", "p", "l", "e",
             ".", "c", "o", "m">>)),
    Some(Str(<<"h", "t", "t", "p", ":", "/", "/", "[", ":", ":", "1", "]", ":",
             "5", "1", "7", "3">>)),
    Some(Str(<<"h", "t", "t", "p", ":", "/", "/", "[", "a", "]">>)),
    Some(Str(<<"h", "t", "t", "p", ":", "/", "/", "c", "l", "i", "p">>)
           \o <<8448>> \o Str(<<"n", "o", "t", "e", "s">>)) }

\* ------------------------------------------------- callers' coroutines
\* call: the operation and its arguments (window is the raw override of
\* get_shared_snapshot, clip and moments are save_analysis's); history:
\* high_at_call, and persisted, the hash of the row the call has inserted
NoCall ==
  [op |-> "none", key |-> "24h", regen |-> FALSE, token |-> "tok1",
   expires_at |-> None, high_at_call |-> 0, method |-> "", path |-> <<>>,
   window |-> None, clip |-> "clip1", moments |-> <<>>, persisted |-> None,
   waited |-> FALSE]
\* call.waited is history: the call has waited for the key's lock.
\* local: record and dirty are the session's object and its modified
\* columns, created_at is save_analysis's
NoLocal ==
  [lock |-> None, generated_at |-> None, rows |-> None,
   previous_rows |-> None, record |-> None, snap |-> None, attempt |-> 0,
   dirty |-> {}, created_at |-> None]
Ret(status, val, via, err) ==
  [status |-> status, val |-> val, via |-> via, err |-> err]
NoRet == Ret("none", None, "", "")

\* the call of caller c ends by raising err
Raise(c, err) ==
  /\ pc' = [pc EXCEPT ![c] = "idle"]
  /\ local' = [local EXCEPT ![c] = NoLocal]
  /\ ret' = [ret EXCEPT ![c] = Ret("raised", None, "", err)]

\* history: the high-severity events aggregate(window) tallies at the
\* instant t when both its SELECTs find the analysis table as it is
HighEvents(table, window, t) ==
  aggregate(window, CurrentRows(window, table, t),
            PreviousRows(window, table, t), t).severity_totals.high

NewCall(op, key, regen, token, expires_at) ==
  [op |-> op, key |-> key, regen |-> regen, token |-> token,
   expires_at |-> expires_at,
   high_at_call |-> IF regen THEN HighEvents(store, key, now) ELSE 0,
   method |-> "", path |-> <<>>,
   window |-> None, clip |-> "clip1", moments |-> <<>>, persisted |-> None,
   waited |-> FALSE]

\* history: what get_snapshot returned from the entry cached under key
Content(snapshot) ==
  [summary |-> snapshot.summary, severity_totals |-> snapshot.severity_totals]
ServedAdd(S, key, snapshot, entry) ==
  IF entry.expires_at = None \/ TheOne(entry.expires_at) > now
    THEN [S EXCEPT ![key] = @ \cup {Content(snapshot)}]
    ELSE S

\* faulty variant: the failure is raised again whatever the payload
shared_fallback_reraise(record, err) == Ret("raised", None, "", err)

\* service.get_shared_snapshot, "except Exception as exc": the persisted
\* payload if it parses, else the original failure
shared_fallback(record, err) ==
  IF model_validate(record.payload) # None
    THEN Ret("ok", model_validate(record.payload), "fallback", "")
    ELSE Ret("raised", None, "", err)

\* cache.get_or_set has returned entry ent (entry map E) to caller c, whose
\* call is cl: the rest of the caller's run up to its next suspension.
\*   get_or_set          returns the entry
\*   get_snapshot        service.py: return self._response_with_expiry(entry)
\*   create_share        goes on to share_store.create_share, which draws
\*                       a token and suspends on its commit
\*   get_shared_snapshot goes on to share_store.update_payload, which
\*                       suspends on "await session.get"
Deliver(c, cl, E, ent, via, loc, S) ==
  LET r == _response_with_expiry(ent)
      annotated == IF E[cl.key] = Some(ent)
                     THEN [E EXCEPT ![cl.key] = Some(r.entry)] ELSE E
  IN  /\ \E token \in (IF cl.op = "create_share" THEN Tokens
                                                 ELSE {cl.token}) :
           call' = [call EXCEPT ![c] = [cl EXCEPT !.token = token]]
      /\ IF cl.op = "get_or_set"
           THEN /\ entries' = E
                /\ served' = S
                /\ pc' = [pc EXCEPT ![c] = "idle"]
                /\ local' = [local EXCEPT ![c] = NoLocal]
                /\ ret' = [ret EXCEPT ![c] = Ret("ok", Some(ent), via, "")]
           ELSE /\ entries' = annotated
                /\ served' = ServedAdd(S, cl.key, r.response, ent)
                /\ IF cl.op = "get_snapshot"
                     THEN /\ pc' = [pc EXCEPT ![c] = "idle"]
                          /\ local' = [local EXCEPT ![c] = NoLocal]
                          /\ ret' = [ret EXCEPT ![c] =
                                       Ret("ok", Some(r.response), via, "")]
                     ELSE /\ pc' = [pc EXCEPT ![c] =
                                      IF cl.op = "create_share"
                                        THEN "create_commit" ELSE "update_get"]
                          /\ local' = [local EXCEPT ![c] =
                                         [loc EXCEPT !.snap = Some(r.response)]]
                          /\ ret' = [ret EXCEPT ![c] = NoRet]

\* the builder raised in caller c's get_or_set: the exception leaves
\* get_or_set and get_snapshot; only get_shared_snapshot catches it
Failure(c, cl, loc, err) ==
  /\ call' = [call EXCEPT ![c] = cl]
  /\ pc' = [pc EXCEPT ![c] = "idle"]
  /\ local' = [local EXCEPT ![c] = NoLocal]
  /\ ret' = [ret EXCEPT ![c] =
               IF cl.op = "get_shared_snapshot"
                 THEN shared_fallback(TheOne(loc.record), err)
                 ELSE Ret("raised", None, "", err)]

\* InsightAggregator._ensure_schema, run by caller c up to its return or
\* its first suspension, for the aggregator's flag, the membership of the
\* URL in _INITIALIZED_URLS and the state of _SCHEMA_LOCK.  A set flag
\* returns at once.  Else ensure_database_ready runs: _MODELS_LOCK is never
\* contended (nothing suspends while holding it); an initialised URL
\* returns, and the flag is set; else "async with _SCHEMA_LOCK" takes the
\* lock, if it is free and nobody waits for it, and the coroutine suspends
\* in engine.begin() / create_all ("ensure_schema"), or it waits for the
\* lock ("schema_lock").  at = "ready": _ensure_schema has returned.
_ensure_schema(c, flag, url_initialized, lock) ==
  IF flag \/ url_initialized
    THEN [at |-> "ready", _initialized |-> TRUE, lock |-> lock]
    ELSE IF ~lock.locked /\ lock.waiters = <<>>
      THEN [at |-> "ensure_schema", _initialized |-> FALSE,
            lock |-> [lock EXCEPT !.locked = TRUE]]
      ELSE [at |-> "schema_lock", _initialized |-> FALSE,
            lock |-> [lock EXCEPT !.waiters = Append(@, c)]]

\* the factory starts: _build_snapshot -> aggregate takes current = now and
\* runs _ensure_schema; when that returns without suspending, aggregate
\* suspends on its first SELECT ("building")
StartFactory(c, cl, E, id, loc, S) ==
  /\ entries' = E
  /\ served' = S
  /\ call' = [call EXCEPT ![c] = cl]
  /\ LET schema == _ensure_schema(c, _initialized, initialized, _SCHEMA_LOCK)
     IN  /\ pc' = [pc EXCEPT ![c] = IF schema.at = "ready" THEN "building"
                                                           ELSE schema.at]
         /\ _initialized' = schema._initialized
         /\ _SCHEMA_LOCK' = schema.lock
  /\ local' = [local EXCEPT ![c] =
                 [loc EXCEPT !.lock = Some(id), !.generated_at = Some(now),
                             !.rows = None, !.previous_rows = None]]
  /\ ret' = [ret EXCEPT ![c] = NoRet]

\* InsightCache.get_or_set from its first line to its first suspension, or
\* to its return, on entry map E0
EnterGetOrSet(c, cl, E0, loc, S) ==
  LET first == cache_get(E0, cl.key, now)
  IN  IF first.entry # None
        THEN /\ Deliver(c, cl, first.entries, TheOne(first.entry), "cache",
                        loc, S)
             /\ UNCHANGED <<locks, lockObjs, _initialized, _SCHEMA_LOCK>>
        ELSE LET got == _get_lock(locks, lockObjs, cl.key)
                 lock == got.lockObjs[got.id]
                 second == recheck(first.entries, cl.key, now)
             IN  /\ locks' = got.locks
                 /\ IF ~lock.locked /\ lock.waiters = <<>>
                      THEN IF second.entry # None
                             THEN /\ lockObjs' = got.lockObjs
                                  /\ Deliver(c, cl, second.entries,
                                             TheOne(second.entry), "cache",
                                             loc, S)
                                  /\ UNCHANGED <<_initialized, _SCHEMA_LOCK>>
                             ELSE /\ lockObjs' = [got.lockObjs EXCEPT
                                                    ![got.id].locked = TRUE]
                                  /\ StartFactory(c, cl, second.entries,
                                                  got.id, loc, S)
                      ELSE /\ lockObjs' = [got.lockObjs EXCEPT
                                             ![got.id].waiters = Append(@, c)]
                           /\ entries' = first.entries
                           /\ served' = S
                           /\ call' = [call EXCEPT ![c] =
                                         [cl EXCEPT !.waited = TRUE]]
                           /\ pc' = [pc EXCEPT ![c] = "await_lock"]
                           /\ local' = [local EXCEPT ![c] =
                                          [loc EXCEPT !.lock = Some(got.id)]]
                           /\ ret' = [ret EXCEPT ![c] = NoRet]
                           /\ UNCHANGED <<_initialized, _SCHEMA_LOCK>>

\* a waiter woken by release takes the lock: get_or_set from "async with
\* lock" on
LockAcquired(c) ==
  /\ pc[c] = "await_lock"
  /\ LET id == TheOne(local[c].lock)
         lock == lockObjs[id]
         second == recheck(entries, call[c].key, now)
         loc == [local[c] EXCEPT !.lock = None]
     IN  /\ ~lock.locked
         /\ lock.waiters # <<>>
         /\ Head(lock.waiters) = c
         /\ IF second.entry # None
              THEN /\ lockObjs' = [lockObjs EXCEPT ![id].waiters = Tail(@)]
                   /\ Deliver(c, call[c], second.entries,
                              TheOne(second.entry), "cache", loc, served)
                   /\ UNCHANGED <<_initialized, _SCHEMA_LOCK>>
              ELSE /\ lockObjs' = [lockObjs EXCEPT ![id].waiters = Tail(@),
                                                   ![id].locked = TRUE]
                   /\ StartFactory(c, call[c], second.entries, id, loc, served)
  /\ UNCHANGED <<now, ttl, store, locks, shares, share_base_url, foreign_keys,
                 initialized, used, clips, request_counts, tracked, calls>>

\* aggregate, "rows = await self._fetch_rows(session, since=bucket_start)"
\* completes: the first SELECT has read the analysis table.  The step is
\* the same whether the service's factory runs aggregate or a caller does.
FetchRows(c) ==
  /\ pc[c] \in {"building", "aggregating"}
  /\ local[c].rows = None
  /\ local' = [local EXCEPT ![c].rows =
                 Some(CurrentRows(call[c].key, store,
                                  TheOne(local[c].generated_at)))]
  /\ UNCHANGED <<now, ttl, store, entries, locks, lockObjs, pc, call, ret,
                 shares, share_base_url, foreign_keys, initialized,
                 _initialized, _SCHEMA_LOCK, used, clips, request_counts,
                 tracked, served, calls>>

\* aggregate, "previous_rows = await self._fetch_rows(session,
\* since=bucket_start - duration, until=bucket_start)" completes: the second
\* SELECT has read the table as it is by now; the session is then closed
FetchPreviousRows(c) ==
  /\ pc[c] \in {"building", "aggregating"}
  /\ local[c].rows # None
  /\ local[c].previous_rows = None
  /\ local' = [local EXCEPT ![c].previous_rows =
                 Some(PreviousRows(call[c].key, store,
                                   TheOne(local[c].generated_at)))]
  /\ UNCHANGED <<now, ttl, store, entries, locks, lockObjs, pc, call, ret,
                 shares, share_base_url, foreign_keys, initialized,
                 _initialized, _SCHEMA_LOCK, used, clips, request_counts,
                 tracked, served, calls>>

\* the session is closed and the factory returns: "return await
\* self.set(key, value)", the lock is released on leaving "async with"
BuilderReturn(c) ==
  /\ pc[c] = "building"
  /\ local[c].previous_rows # None
  /\ \E value \in {_build_snapshot(call[c].key, TheOne(local[c].rows),
                                     TheOne(local[c].previous_rows),
                                     TheOne(local[c].generated_at))} :
       LET id == TheOne(local[c].lock)
           put == cache_set(entries, call[c].key, value, None, ttl, now)
       IN  /\ lockObjs' = lock_release(lockObjs, id)
           /\ Deliver(c, call[c], put.entries, TheOne(put.entry), "built",
                      [local[c] EXCEPT !.lock = None], served)
  /\ UNCHANGED <<now, ttl, store, locks, shares, share_base_url, foreign_keys,
                 initialized, _initialized, _SCHEMA_LOCK, used, clips,
                 request_counts, tracked, calls>>

\* the factory raises (the database fails under aggregate, in create_all
\* or in a SELECT): the exception leaves "async with", releasing the lock,
\* and _SCHEMA_LOCK too when it is create_all that failed; set is never
\* reached
BuilderRaise(c) ==
  /\ pc[c] \in {"building", "ensure_schema"}
  /\ call[c].op # "aggregate"
  /\ _SCHEMA_LOCK' = IF pc[c] = "ensure_schema"
                       THEN [_SCHEMA_LOCK EXCEPT !.locked = FALSE]
                       ELSE _SCHEMA_LOCK
  /\ UNCHANGED _initialized
  /\ lockObjs' = release_on_raise(lockObjs, TheOne(local[c].lock))
  /\ Failure(c, call[c], [local[c] EXCEPT !.lock = None], "builder")
  /\ UNCHANGED <<now, ttl, store, entries, locks, shares, share_base_url,
                 foreign_keys, initialized, used, clips, request_counts,
                 tracked, served, calls>>
\* the clock advances; an entry that is now expired no longer counts as
\* the entry callers have been served from
Tick ==
  /\ \E s \in StartTimes : s <= now /\ now < s + MaxTime
  /\ now' = now + 1
  /\ served' = [k \in Keys |->
                  IF entries[k] # None
                     /\ TheOne(entries[k]).expires_at # None
                     /\ TheOne(TheOne(entries[k]).expires_at) <= now + 1
                    THEN {} ELSE served[k]]
  /\ UNCHANGED <<ttl, store, entries, locks, lockObjs, pc, call, local, ret,
                 shares, share_base_url, foreign_keys, initialized,
                 _initialized, _SCHEMA_LOCK, used, clips, request_counts,
                 tracked, calls>>

\* --------------------------------------------------- store/sqlite.py
\* the clips uploaded before a run and the moments of the analyses written
\* during it
Clips == {"clip1"}
StoredMoments ==
  { <<[severity |-> Some(Str(<<"h", "i", "g", "h">>)),
       label |-> Some(Str(<<"i", "n", "t", "r", "u", "s", "i", "o", "n">>))]>>,
    <<[severity |-> Some(Str(<<"H", "i", "g", "h">>)),
       label |-> Some(Str(<<"i", "n", "t", "r", "u", "s", "i", "o", "n">>))],
      [severity |-> Some(Str(<<"l", "o", "w">>)),
       label |-> Some(Str(<<"L", "o", "i", "t", "e", "r", "i", "n", "g">>))]>> }

\* the create_clip calls made so far (an id drawn each) and the delete_clip
\* calls made so far that found their clip or are still looking for it
ClipCalls ==
  Cardinality(used \ Clips) + Cardinality(used \ clips)
    - Cardinality({d \in Callers : pc[d] = "create_clip_commit"})
    + Cardinality({d \in Callers : pc[d] \in {"delete_get", "delete_commit"}})

\* SqliteStore.create_clip(filename) up to "await session.commit()":
\* build_clip_record draws the id, one that no clip has been given yet
CreateClip(c, id) ==
  /\ pc[c] = "idle"
  /\ ClipCalls < MaxClipCalls
  /\ id \notin used
  /\ used' = used \cup {id}
  /\ call' = [call EXCEPT ![c] =
                [NewCall("create_clip", "24h", FALSE, "tok1", None)
                   EXCEPT !.clip = id]]
  /\ pc' = [pc EXCEPT ![c] = "create_clip_commit"]
  /\ local' = [local EXCEPT ![c] = NoLocal]
  /\ ret' = [ret EXCEPT ![c] = NoRet]
  /\ UNCHANGED <<now, ttl, clips, store, entries, locks, lockObjs, shares,
                 share_base_url, foreign_keys, initialized, _initialized,
                 _SCHEMA_LOCK, request_counts, tracked, served, calls>>

\* create_clip, "await session.commit()" completes: the row is inserted
\* and the record returned
CreateClipCommit(c) ==
  /\ pc[c] = "create_clip_commit"
  /\ clips' = clips \cup {call[c].clip}
  /\ pc' = [pc EXCEPT ![c] = "idle"]
  /\ local' = [local EXCEPT ![c] = NoLocal]
  /\ ret' = [ret EXCEPT ![c] = Ret("ok", Some(call[c].clip), "store", "")]
  /\ UNCHANGED <<now, ttl, store, entries, locks, lockObjs, call, shares,
                 share_base_url, foreign_keys, initialized, _initialized,
                 _SCHEMA_LOCK, used, request_counts, tracked, served, calls>>

\* SqliteStore.save_analysis(clip_id, payload) up to "await session.get"
SaveAnalysis(c, clip, moments) ==
  /\ pc[c] = "idle"
  /\ Len(store)
       + Cardinality({d \in Callers :
                        pc[d] \in {"save_get", "save_commit",
                                   "save_refresh_clip",
                                   "save_refresh_analysis"}}) < MaxStore
  /\ call' = [call EXCEPT ![c] =
                [NewCall("save_analysis", "24h", FALSE, "tok1", None)
                   EXCEPT !.clip = clip, !.moments = moments]]
  /\ pc' = [pc EXCEPT ![c] = "save_get"]
  /\ local' = [local EXCEPT ![c] = NoLocal]
  /\ ret' = [ret EXCEPT ![c] = NoRet]
  /\ UNCHANGED <<now, ttl, clips, store, entries, locks, lockObjs, shares,
                 share_base_url, foreign_keys, initialized, _initialized,
                 _SCHEMA_LOCK, used, request_counts, tracked, served, calls>>

\* save_analysis, "await session.get(ClipModel, ...)" completes: an unknown
\* clip raises ClipNotFoundError; else created_at is taken from the clock,
\* the analysis is added to the session and the coroutine suspends on
\* "await session.commit()"
SaveAnalysisGet(c) ==
  /\ pc[c] = "save_get"
  /\ IF call[c].clip \notin clips
       THEN Raise(c, "ClipNotFoundError")
       ELSE /\ local' = [local EXCEPT ![c].created_at = Some(now)]
            /\ pc' = [pc EXCEPT ![c] = "save_commit"]
            /\ UNCHANGED ret
  /\ UNCHANGED <<now, ttl, clips, store, entries, locks, lockObjs, call,
                 shares, share_base_url, foreign_keys, initialized,
                 _initialized, _SCHEMA_LOCK, used, request_counts, tracked,
                 served, calls>>

\* save_analysis, "await session.commit()" completes: the analysis row
\* becomes visible, with the created_at taken before the commit; the flush
\* fails when the clip has been deleted meanwhile (its UPDATE matches no
\* row).  Then "await session.refresh(clip)".
SaveAnalysisCommit(c) ==
  /\ pc[c] = "save_commit"
  /\ IF call[c].clip \notin clips
       THEN /\ Raise(c, "StaleDataError")
            /\ UNCHANGED store
       ELSE /\ store' = Append(store,
                               [clip_id |-> call[c].clip,
                                created_at |-> TheOne(local[c].created_at),
                                moments |-> call[c].moments])
            /\ pc' = [pc EXCEPT ![c] = "save_refresh_clip"]
            /\ UNCHANGED <<local, ret>>
  /\ UNCHANGED <<now, ttl, clips, entries, locks, lockObjs, call, shares,
                 share_base_url, foreign_keys, initialized, _initialized,
                 _SCHEMA_LOCK, used, request_counts, tracked, served, calls>>

\* save_analysis, "await session.refresh(clip)" completes (it raises when
\* the row is gone); then "await session.refresh(analysis)"
SaveAnalysisRefreshClip(c) ==
  /\ pc[c] = "save_refresh_clip"
  /\ IF call[c].clip \notin clips
       THEN Raise(c, "InvalidRequestError")
       ELSE /\ pc' = [pc EXCEPT ![c] = "save_refresh_analysis"]
            /\ UNCHANGED <<local, ret>>
  /\ UNCHANGED <<now, ttl, clips, store, entries, locks, lockObjs, call,
                 shares, share_base_url, foreign_keys, initialized,
                 _initialized, _SCHEMA_LOCK, used, request_counts, tracked,
                 served, calls>>

\* save_analysis, "await session.refresh(analysis)" completes and the
\* record is returned; the refresh raises when the row is gone, which it is
\* when its clip has been deleted and the database cascades the delete
SaveAnalysisRefreshAnalysis(c) ==
  /\ pc[c] = "save_refresh_analysis"
  /\ IF foreign_keys /\ call[c].clip \notin clips
       THEN Raise(c, "InvalidRequestError")
       ELSE /\ pc' = [pc EXCEPT ![c] = "idle"]
            /\ local' = [local EXCEPT ![c] = NoLocal]
            /\ ret' = [ret EXCEPT ![c] =
                         Ret("ok",
                             Some([clip_id |-> call[c].clip,
                                   created_at |-> TheOne(local[c].created_at),
                                   moments |-> call[c].moments]),
                             "store", "")]
  /\ UNCHANGED <<now, ttl, clips, store, entries, locks, lockObjs, call,
                 shares, share_base_url, foreign_keys, initialized,
                 _initialized, _SCHEMA_LOCK, used, request_counts, tracked,
                 served, calls>>

\* SqliteStore.delete_clip(clip_id) up to "await session.get"
DeleteClip(c, clip) ==
  /\ pc[c] = "idle"
  /\ ClipCalls < MaxClipCalls
  /\ call' = [call EXCEPT ![c] =
                [NewCall("delete_clip", "24h", FALSE, "tok1", None)
                   EXCEPT !.clip = clip]]
  /\ pc' = [pc EXCEPT ![c] = "delete_get"]
  /\ local' = [local EXCEPT ![c] = NoLocal]
  /\ ret' = [ret EXCEPT ![c] = NoRet]
  /\ UNCHANGED <<now, ttl, clips, store, entries, locks, lockObjs, shares,
                 share_base_url, foreign_keys, initialized, _initialized,
                 _SCHEMA_LOCK, used, request_counts, tracked, served, calls>>

\* delete_clip, "await session.get" completes: an unknown clip raises
\* ClipNotFoundError; else the row is marked deleted and the coroutine
\* suspends on "await session.commit()"
DeleteClipGet(c) ==
  /\ pc[c] = "delete_get"
  /\ IF call[c].clip \notin clips
       THEN Raise(c, "ClipNotFoundError")
       ELSE /\ pc' = [pc EXCEPT ![c] = "delete_commit"]
            /\ UNCHANGED <<local, ret>>
  /\ UNCHANGED <<now, ttl, clips, store, entries, locks, lockObjs, call,
                 shares, share_base_url, foreign_keys, initialized,
                 _initialized, _SCHEMA_LOCK, used, request_counts, tracked,
                 served, calls>>

\* delete_clip, "await session.commit()" completes: the clip's row is
\* deleted.  ClipModel declares no relationship, so the session deletes
\* nothing else; the clip's analyses go with it where the database enforces
\* ForeignKey("clips.id", ondelete="CASCADE"), and stay where it does not.
DeleteClipCommit(c) ==
  /\ pc[c] = "delete_commit"
  /\ clips' = clips \ {call[c].clip}
  /\ store' = IF foreign_keys
                THEN SelectSeq(store, LAMBDA row : row.clip_id # call[c].clip)
                ELSE store
  /\ pc' = [pc EXCEPT ![c] = "idle"]
  /\ local' = [local EXCEPT ![c] = NoLocal]
  /\ ret' = [ret EXCEPT ![c] = Ret("ok", None, "store", "")]
  /\ UNCHANGED <<now, ttl, entries, locks, lockObjs, call, shares,
                 share_base_url, foreign_keys, initialized, _initialized,
                 _SCHEMA_LOCK, used, request_counts, tracked, served, calls>>

\* ------------------------------------------- direct calls on the cache
\* InsightCache.get
CacheGet(c, key) ==
  /\ pc[c] = "idle"
  /\ LET got == cache_get(entries, key, now)
     IN  /\ entries' = got.entries
         /\ ret' = [ret EXCEPT ![c] =
                      Ret(IF got.entry = None THEN "miss" ELSE "ok",
                          got.entry, "cache", "")]
  /\ call' = [call EXCEPT ![c] = NewCall("get", key, FALSE, "tok1", None)]
  /\ local' = [local EXCEPT ![c] = NoLocal]
  /\ UNCHANGED <<now, ttl, store, locks, lockObjs, pc, shares, share_base_url,
                 foreign_keys, initialized, _initialized, _SCHEMA_LOCK, used,
                 clips, request_counts, tracked, served>>
  /\ calls < MaxCalls
  /\ calls' = calls + 1

\* InsightCache.set, with or without an explicit expiry
CacheSet(c, key, expires_at) ==
  /\ pc[c] = "idle"
  /\ \E value \in {Snapshot(key, store, now)} :
       LET put == cache_set(entries, key, value, expires_at, ttl, now)
       IN  /\ entries' = put.entries
           /\ ret' = [ret EXCEPT ![c] = Ret("ok", put.entry, "set", "")]
  /\ call' = [call EXCEPT ![c] = NewCall("set", key, FALSE, "tok1", expires_at)]
  /\ local' = [local EXCEPT ![c] = NoLocal]
  /\ UNCHANGED <<now, ttl, store, locks, lockObjs, pc, shares, share_base_url,
                 foreign_keys, initialized, _initialized, _SCHEMA_LOCK, used,
                 clips, request_counts, tracked, served>>
  /\ calls < MaxCalls
  /\ calls' = calls + 1

\* InsightCache.invalidate(key) and invalidate()
CacheInvalidate(c, key) ==
  /\ pc[c] = "idle"
  /\ entries' = cache_invalidate(entries, key)
  /\ ret' = [ret EXCEPT ![c] = Ret("ok", None, "invalidate", "")]
  /\ call' = [call EXCEPT ![c] =
                NewCall("invalidate", IF key = None THEN "24h" ELSE TheOne(key),
                        key = None, "tok1", None)]
  /\ local' = [local EXCEPT ![c] = NoLocal]
  /\ UNCHANGED <<now, ttl, store, locks, lockObjs, pc, shares, share_base_url,
                 foreign_keys, initialized, _initialized, _SCHEMA_LOCK, used,
                 clips, request_counts, tracked, served>>
  /\ calls < MaxCalls
  /\ calls' = calls + 1

\* InsightCache.get_or_set(key, factory)
CacheGetOrSet(c, key) ==
  /\ pc[c] = "idle"
  /\ EnterGetOrSet(c, NewCall("get_or_set", key, FALSE, "tok1", None),
                   entries, NoLocal, served)
  /\ UNCHANGED <<now, ttl, store, shares, share_base_url, foreign_keys,
                 initialized, used, clips, request_counts, tracked>>
  /\ calls < MaxCalls
  /\ calls' = calls + 1

\* ------------------------------------------------ calls on the service
\* InsightService.get_snapshot(window, regenerate); regenerate_snapshot is
\* get_snapshot(window, regenerate=True)
GetSnapshot(c, raw, regenerate) ==
  /\ pc[c] = "idle"
  /\ calls < MaxSnapshotCalls
  /\ LET window_value == validate_window(raw)
     IN  IF window_value = None
           THEN /\ call' = [call EXCEPT ![c] =
                              NewCall("get_snapshot", "24h", regenerate,
                                      "tok1", None)]
                /\ ret' = [ret EXCEPT ![c] =
                             Ret("raised", None, "", "ValueError")]
                /\ local' = [local EXCEPT ![c] = NoLocal]
                /\ UNCHANGED <<entries, locks, lockObjs, pc, served,
                               _initialized, _SCHEMA_LOCK>>
           ELSE LET w == TheOne(window_value)
                IN  EnterGetOrSet(
                      c,
                      NewCall("get_snapshot", w, regenerate, "tok1", None),
                      IF regenerate THEN cache_invalidate(entries, Some(w))
                                    ELSE entries,
                      NoLocal,
                      IF regenerate THEN [served EXCEPT ![w] = {}]
                                    ELSE served)
  /\ UNCHANGED <<now, ttl, store, shares, share_base_url, foreign_keys,
                 initialized, used, clips, request_counts, tracked>>
  /\ calls' = calls + 1

\* InsightService.create_share up to share_store.create_share
CreateShare(c, raw, expires_at) ==
  /\ pc[c] = "idle"
  /\ calls < MaxShareCalls
  /\ LET window_value == validate_window(raw)
     IN  IF window_value = None
           THEN /\ call' = [call EXCEPT ![c] =
                              NewCall("create_share", "24h", FALSE, "tok1",
                                      expires_at)]
                /\ ret' = [ret EXCEPT ![c] =
                             Ret("raised", None, "", "ValueError")]
                /\ local' = [local EXCEPT ![c] = NoLocal]
                /\ UNCHANGED <<entries, locks, lockObjs, pc, served,
                               _initialized, _SCHEMA_LOCK>>
           ELSE EnterGetOrSet(
                  c,
                  NewCall("create_share", TheOne(window_value), FALSE, "tok1",
                          expires_at),
                  entries, NoLocal, served)
  /\ UNCHANGED <<now, ttl, store, shares, share_base_url, foreign_keys,
                 initialized, used, clips, request_counts, tracked>>
  /\ calls' = calls + 1

\* ---------------------------- the share store's coroutines, step by step
\* Each "await" on the session (get, commit, rollback, refresh) suspends the
\* coroutine.  Leaving "async with session" closes the session, which
\* suspends too: it is a step of its own where the code after it reads what
\* other coroutines write (get_share, aggregate), and part of the step
\* before it where the code only returns.
\* create_share, get_share and update_payload run the same steps whether
\* the service calls them or a caller of the store does (call[c].op tells).

\* create_share, "await session.commit()" completes: the database fails
\* (committed == FALSE) with an exception that is no IntegrityError, which
\* leaves create_share whatever the table holds; or the INSERT fails with
\* IntegrityError because the token's hash has a row, and the code goes on
\* to "await session.rollback()"; or the row is persisted and the coroutine
\* suspends on "await session.refresh(record)"
CreateShareCommit(c, committed) ==
  /\ pc[c] = "create_commit"
  /\ LET token_hash == _hash_token(call[c].token)
         snapshot == TheOne(local[c].snap)
         record == InsightShareModel(
                     token_hash, call[c].key, model_dump(snapshot),
                     IF call[c].expires_at # None
                       THEN call[c].expires_at
                       ELSE snapshot.cache_expires_at,
                     now)
     IN  IF ~committed
           THEN /\ Raise(c, "DatabaseError")
                /\ UNCHANGED <<shares, call>>
           ELSE IF shares[token_hash] # None
             THEN /\ pc' = [pc EXCEPT ![c] = "create_rollback"]
                  /\ UNCHANGED <<shares, call, local, ret>>
             ELSE /\ shares' = [shares EXCEPT ![token_hash] = Some(record)]
                  /\ call' = [call EXCEPT ![c].persisted = Some(token_hash)]
                  /\ pc' = [pc EXCEPT ![c] = "create_refresh"]
                  /\ UNCHANGED <<local, ret>>
  /\ UNCHANGED <<now, ttl, clips, store, entries, locks, lockObjs,
                 share_base_url, foreign_keys, initialized, _initialized,
                 _SCHEMA_LOCK, used, request_counts, tracked, served, calls>>

\* create_share, "await session.rollback()" completes: the attempt is
\* counted; the fifth raises RuntimeError, an earlier one goes round the
\* loop: a new token is drawn and the coroutine suspends on its commit
CreateShareRollback(c, token) ==
  /\ pc[c] = "create_rollback"
  /\ IF local[c].attempt + 1 >= MaxAttempts
       THEN /\ Raise(c, "RuntimeError")
            /\ UNCHANGED call
       ELSE /\ local' = [local EXCEPT ![c].attempt = @ + 1]
            /\ call' = [call EXCEPT ![c].token = token]
            /\ pc' = [pc EXCEPT ![c] = "create_commit"]
            /\ UNCHANGED ret
  /\ UNCHANGED <<now, ttl, clips, store, entries, locks, lockObjs, shares,
                 share_base_url, foreign_keys, initialized, _initialized,
                 _SCHEMA_LOCK, used, request_counts, tracked, served, calls>>

\* create_share, "await session.refresh(record)" completes: the row is read
\* back and create_share returns (token, record); service.create_share
\* then builds the URL and its response
CreateShareRefresh(c) ==
  /\ pc[c] = "create_refresh"
  /\ LET token == call[c].token
         record == TheOne(shares[_hash_token(token)])
         snapshot == TheOne(local[c].snap)
         built == _build_share_url(share_base_url, token)
     IN  ret' = [ret EXCEPT ![c] =
           IF call[c].op = "store_create_share"
             THEN Ret("ok", Some([token |-> token, record |-> record]),
                      "store", "")
           ELSE IF built.url = None
             THEN Ret("raised", None, "", built.err)
             ELSE Ret("ok",
                      Some([token |-> token,
                            url |-> TheOne(built.url),
                            window |-> call[c].key,
                            generated_at |-> snapshot.generated_at,
                            cache_expires_at |-> snapshot.cache_expires_at]),
                      "share", "")]
  /\ pc' = [pc EXCEPT ![c] = "idle"]
  /\ local' = [local EXCEPT ![c] = NoLocal]
  /\ UNCHANGED <<now, ttl, clips, store, entries, locks, lockObjs, call,
                 shares, share_base_url, foreign_keys, initialized,
                 _initialized, _SCHEMA_LOCK, used, request_counts, tracked,
                 served, calls>>

\* get_share, "await session.get" completes: an unknown token raises
\* ShareTokenNotFoundError; else last_accessed_at is assigned the time of
\* this step and the coroutine suspends on "await session.commit()"
GetShareGet(c) ==
  /\ pc[c] = "get_share_get"
  /\ LET got == get_share(shares, call[c].token, now)
     IN  /\ shares' = got.shares
         /\ IF got.status = "raised"
              THEN Raise(c, got.err)
              ELSE /\ local' = [local EXCEPT ![c].record = got.record,
                                             ![c].dirty = got.dirty]
                   /\ pc' = [pc EXCEPT ![c] = "get_share_commit"]
                   /\ UNCHANGED ret
  /\ UNCHANGED <<now, ttl, clips, store, entries, locks, lockObjs, call,
                 share_base_url, foreign_keys, initialized, _initialized,
                 _SCHEMA_LOCK, used, request_counts, tracked, served, calls>>

\* get_share, "await session.commit()" completes: the UPDATE writes the
\* last_accessed_at assigned earlier, or fails (committed == FALSE), which
\* the method does not catch; then "await session.refresh(record)"
GetShareCommit(c, committed) ==
  /\ pc[c] = "get_share_commit"
  /\ IF ~committed
       THEN /\ Raise(c, "DatabaseError")
            /\ UNCHANGED shares
       ELSE /\ shares' = flush(shares, TheOne(local[c].record), local[c].dirty)
            /\ local' = [local EXCEPT ![c].dirty = {}]
            /\ pc' = [pc EXCEPT ![c] = "get_share_refresh"]
            /\ UNCHANGED ret
  /\ UNCHANGED <<now, ttl, clips, store, entries, locks, lockObjs, call,
                 share_base_url, foreign_keys, initialized, _initialized,
                 _SCHEMA_LOCK, used, request_counts, tracked, served, calls>>

\* get_share, "await session.refresh(record)" completes: the row is read
\* back into the session's object; leaving "async with" then closes the
\* session, which suspends once more
GetShareRefresh(c) ==
  /\ pc[c] = "get_share_refresh"
  /\ local' = [local EXCEPT ![c].record = shares[_hash_token(call[c].token)]]
  /\ pc' = [pc EXCEPT ![c] = "get_share_close"]
  /\ UNCHANGED <<now, ttl, clips, store, entries, locks, lockObjs, call, ret,
                 shares, share_base_url, foreign_keys, initialized,
                 _initialized, _SCHEMA_LOCK, used, request_counts, tracked,
                 served, calls>>

\* get_share, the session is closed: the record, as the refresh read it, is
\* returned.  service.get_shared_snapshot goes on to the window check and
\* to get_snapshot, up to its first suspension.
GetShareClose(c) ==
  /\ pc[c] = "get_share_close"
  /\ LET record == TheOne(local[c].record)
     IN  IF call[c].op = "get_share"
           THEN /\ pc' = [pc EXCEPT ![c] = "idle"]
                /\ local' = [local EXCEPT ![c] = NoLocal]
                /\ ret' = [ret EXCEPT ![c] =
                             Ret("ok", Some(record), "store", "")]
                /\ UNCHANGED <<entries, locks, lockObjs, call, served,
                               _initialized, _SCHEMA_LOCK>>
           ELSE IF ~window_matches(call[c].window, record.window)
             THEN /\ Raise(c, "ValueError")
                  /\ UNCHANGED <<entries, locks, lockObjs, call, served,
                                 _initialized, _SCHEMA_LOCK>>
             ELSE EnterGetOrSet(
                    c, [call[c] EXCEPT !.key = record.window], entries,
                    [NoLocal EXCEPT !.record = Some(record)], served)
  /\ UNCHANGED <<now, ttl, clips, store, shares, share_base_url, foreign_keys,
                 initialized, used, request_counts, tracked, calls>>

\* update_payload, "await session.get" completes: an unknown token raises
\* ShareTokenNotFoundError; else payload, expires_at and last_accessed_at
\* are assigned and the coroutine suspends on "await session.commit()"
UpdatePayloadGet(c) ==
  /\ pc[c] = "update_get"
  /\ LET row == shares[_hash_token(call[c].token)]
         snapshot == TheOne(local[c].snap)
         assigned == update_payload(TheOne(row), model_dump(snapshot),
                                    snapshot.cache_expires_at, now)
     IN  IF row = None
           THEN Raise(c, "ShareTokenNotFoundError")
           ELSE /\ local' = [local EXCEPT ![c].record = Some(assigned.record),
                                          ![c].dirty = assigned.dirty]
                /\ pc' = [pc EXCEPT ![c] = "update_commit"]
                /\ UNCHANGED ret
  /\ UNCHANGED <<now, ttl, clips, store, entries, locks, lockObjs, call,
                 shares, share_base_url, foreign_keys, initialized,
                 _initialized, _SCHEMA_LOCK, used, request_counts, tracked,
                 served, calls>>

\* update_payload, "await session.commit()" completes: the UPDATE writes
\* the modified columns, or fails (committed == FALSE); update_payload
\* returns and get_shared_snapshot returns the snapshot
UpdatePayloadCommit(c, committed) ==
  /\ pc[c] = "update_commit"
  /\ IF ~committed
       THEN /\ Raise(c, "DatabaseError")
            /\ UNCHANGED shares
       ELSE /\ shares' = flush(shares, TheOne(local[c].record), local[c].dirty)
            /\ pc' = [pc EXCEPT ![c] = "idle"]
            /\ local' = [local EXCEPT ![c] = NoLocal]
            /\ ret' = [ret EXCEPT ![c] =
                         IF call[c].op = "update_payload"
                           THEN Ret("ok", None, "store", "")
                           ELSE Ret("ok", local[c].snap, "live", "")]
  /\ UNCHANGED <<now, ttl, clips, store, entries, locks, lockObjs, call,
                 share_base_url, foreign_keys, initialized, _initialized,
                 _SCHEMA_LOCK, used, request_counts, tracked, served, calls>>

\* InsightService.get_shared_snapshot(token, window) up to "await
\* session.get" in share_store.get_share
GetSharedSnapshot(c, token, window) ==
  /\ pc[c] = "idle"
  /\ calls < MaxShareCalls
  /\ calls' = calls + 1
  /\ call' = [call EXCEPT ![c] =
                [NewCall("get_shared_snapshot", "24h", FALSE, token, None)
                   EXCEPT !.window = window]]
  /\ pc' = [pc EXCEPT ![c] = "get_share_get"]
  /\ local' = [local EXCEPT ![c] = NoLocal]
  /\ ret' = [ret EXCEPT ![c] = NoRet]
  /\ UNCHANGED <<now, ttl, clips, store, entries, locks, lockObjs, shares,
                 share_base_url, foreign_keys, initialized, _initialized,
                 _SCHEMA_LOCK, used, request_counts, tracked, served>>

\* ------------------------------------- direct calls on the share store
\* InsightShareStore.create_share(window, payload, cache_expires_at) up to
\* its first commit, with the token it draws; the payload is a dumped
\* snapshot of the given window
StoreCreateShare(c, window, cache_expires_at, token) ==
  /\ pc[c] = "idle"
  /\ calls < MaxShareCalls
  /\ calls' = calls + 1
  /\ pc' = [pc EXCEPT ![c] = "create_commit"]
  /\ call' = [call EXCEPT ![c] =
                NewCall("store_create_share", window, FALSE, token, None)]
  /\ \E value \in {Snapshot(window, store, now)} :
       local' = [local EXCEPT ![c] =
                   [NoLocal EXCEPT
                      !.snap = Some([value EXCEPT
                                       !.cache_expires_at = cache_expires_at])]]
  /\ ret' = [ret EXCEPT ![c] = NoRet]
  /\ UNCHANGED <<now, ttl, clips, store, entries, locks, lockObjs, shares,
                 share_base_url, foreign_keys, initialized, _initialized,
                 _SCHEMA_LOCK, used, request_counts, tracked, served>>

\* InsightShareStore.get_share(token) up to "await session.get"
StoreGetShare(c, token) ==
  /\ pc[c] = "idle"
  /\ calls < MaxShareCalls
  /\ calls' = calls + 1
  /\ pc' = [pc EXCEPT ![c] = "get_share_get"]
  /\ call' = [call EXCEPT ![c] =
                NewCall("get_share", "24h", FALSE, token, None)]
  /\ local' = [local EXCEPT ![c] = NoLocal]
  /\ ret' = [ret EXCEPT ![c] = NoRet]
  /\ UNCHANGED <<now, ttl, clips, store, entries, locks, lockObjs, shares,
                 share_base_url, foreign_keys, initialized, _initialized,
                 _SCHEMA_LOCK, used, request_counts, tracked, served>>

\* InsightShareStore.update_payload(token, payload, cache_expires_at) up to
\* "await session.get"; the payload is a dumped snapshot of the given window
StoreUpdatePayload(c, token, window, cache_expires_at) ==
  /\ pc[c] = "idle"
  /\ calls < MaxShareCalls
  /\ calls' = calls + 1
  /\ pc' = [pc EXCEPT ![c] = "update_get"]
  /\ call' = [call EXCEPT ![c] =
                NewCall("update_payload", window, FALSE, token,
                        cache_expires_at)]
  /\ \E value \in {Snapshot(window, store, now)} :
       local' = [local EXCEPT ![c] =
                   [NoLocal EXCEPT
                      !.snap = Some([value EXCEPT
                                       !.cache_expires_at = cache_expires_at])]]
  /\ ret' = [ret EXCEPT ![c] = NoRet]
  /\ UNCHANGED <<now, ttl, clips, store, entries, locks, lockObjs, shares,
                 share_base_url, foreign_keys, initialized, _initialized,
                 _SCHEMA_LOCK, used, request_counts, tracked, served>>

\* ------------------------------------------- a call on the aggregator
\* InsightAggregator.aggregate(window, now=now) up to its first suspension;
\* one call per behaviour.  current is taken, then _ensure_schema runs;
\* when it returns without suspending the first SELECT is awaited.
Aggregate(c, window) ==
  /\ pc[c] = "idle"
  /\ calls = 0
  /\ calls' = calls + 1
  /\ call' = [call EXCEPT ![c] = NewCall("aggregate", window, FALSE, "tok1",
                                         None)]
  /\ local' = [local EXCEPT ![c] =
                 [NoLocal EXCEPT !.generated_at = Some(now)]]
  /\ LET schema == _ensure_schema(c, _initialized, initialized, _SCHEMA_LOCK)
     IN  /\ pc' = [pc EXCEPT ![c] = IF schema.at = "ready" THEN "aggregating"
                                                           ELSE schema.at]
         /\ _initialized' = schema._initialized
         /\ _SCHEMA_LOCK' = schema.lock
  /\ ret' = [ret EXCEPT ![c] = NoRet]
  /\ UNCHANGED <<now, ttl, store, entries, locks, lockObjs, shares,
                 share_base_url, foreign_keys, initialized, used, clips,
                 request_counts, tracked, served>>

\* ensure_database_ready, a waiter woken by the release of _SCHEMA_LOCK
\* takes it: if the URL has been initialised by now it leaves at once, the
\* aggregator's flag is set and aggregate goes on to its first SELECT; else
\* it suspends in engine.begin() / create_all, holding the lock
SchemaLockAcquired(c) ==
  /\ pc[c] = "schema_lock"
  /\ ~_SCHEMA_LOCK.locked
  /\ _SCHEMA_LOCK.waiters # <<>>
  /\ Head(_SCHEMA_LOCK.waiters) = c
  /\ IF initialized
       THEN /\ _SCHEMA_LOCK' = [_SCHEMA_LOCK EXCEPT !.waiters = Tail(@)]
            /\ _initialized' = TRUE
            /\ pc' = [pc EXCEPT ![c] = IF call[c].op = "aggregate"
                                         THEN "aggregating" ELSE "building"]
       ELSE /\ _SCHEMA_LOCK' = [locked |-> TRUE,
                               waiters |-> Tail(_SCHEMA_LOCK.waiters)]
            /\ pc' = [pc EXCEPT ![c] = "ensure_schema"]
            /\ UNCHANGED _initialized
  /\ UNCHANGED <<now, ttl, store, entries, locks, lockObjs, call, local, ret,
                 shares, share_base_url, foreign_keys, initialized, used,
                 clips, request_counts, tracked, served, calls>>

\* aggregate, "await self._ensure_schema()" completes: create_all has made
\* the tables, the URL is added to _INITIALIZED_URLS, _SCHEMA_LOCK is
\* released (its first waiter is woken) and the aggregator's flag is set;
\* aggregate goes on to its first SELECT
AggregateEnsureSchema(c) ==
  /\ pc[c] = "ensure_schema"
  /\ initialized' = TRUE
  /\ _initialized' = TRUE
  /\ _SCHEMA_LOCK' = [_SCHEMA_LOCK EXCEPT !.locked = FALSE]
  /\ pc' = [pc EXCEPT ![c] = IF call[c].op = "aggregate"
                               THEN "aggregating" ELSE "building"]
  /\ UNCHANGED <<now, ttl, store, entries, locks, lockObjs, call, local, ret,
                 shares, share_base_url, foreign_keys, used, clips,
                 request_counts, tracked, served, calls>>

\* db.dispose_engine(database_url): "await engine.dispose()" completes and
\* the URL is removed from _INITIALIZED_URLS; the session factories the
\* components hold stay bound to the disposed engine, which reconnects on
\* its next use
DisposeEngine ==
  /\ initialized' = FALSE
  /\ UNCHANGED <<now, ttl, store, entries, locks, lockObjs, pc, call, local,
                 ret, shares, share_base_url, foreign_keys, _initialized,
                 _SCHEMA_LOCK, used, clips, request_counts, tracked, served,
                 calls>>

\* aggregate, the session is closed: the tallies are made over the rows
\* fetched and the AggregatedInsights returned
AggregateReturn(c) ==
  /\ pc[c] = "aggregating"
  /\ local[c].previous_rows # None
  /\ pc' = [pc EXCEPT ![c] = "idle"]
  /\ ret' = [ret EXCEPT ![c] =
               Ret("ok",
                   Some(aggregate(call[c].key, TheOne(local[c].rows),
                                  TheOne(local[c].previous_rows),
                                  TheOne(local[c].generated_at))),
                   "aggregate", "")]
  /\ local' = [local EXCEPT ![c] = NoLocal]
  /\ UNCHANGED <<now, ttl, store, entries, locks, lockObjs, call, shares,
                 share_base_url, foreign_keys, initialized, _initialized,
                 _SCHEMA_LOCK, used, clips, request_counts, tracked, served,
                 calls>>

\* ------------------------------ api/middleware/request_counter.py
\* str.startswith
startswith(s, prefix) ==
  Len(s) >= Len(prefix) /\ SubSeq(s, 1, Len(prefix)) = prefix

\* RequestCounterMiddleware._should_track
_should_track(method, path) ==
  IF method = "OPTIONS" THEN FALSE
    ELSE startswith(path, Str(<<"/", "a", "p", "i">>))

\* RequestCounterMiddleware.dispatch up to "await call_next(request)"; a
\* preflight is answered at once with Response(status_code=200)
Dispatch(c, method, path) ==
  /\ pc[c] = "idle"
  /\ calls < MaxCalls
  /\ calls' = calls + 1
  /\ call' = [call EXCEPT ![c] =
                [NewCall("dispatch", "24h", FALSE, "tok1", None) EXCEPT
                   !.method = method, !.path = path]]
  /\ local' = [local EXCEPT ![c] = NoLocal]
  /\ IF method = "OPTIONS"
       THEN /\ pc' = pc
            /\ ret' = [ret EXCEPT ![c] = Ret("ok", Some(200), "preflight", "")]
       ELSE /\ pc' = [pc EXCEPT ![c] = "call_next"]
            /\ ret' = [ret EXCEPT ![c] = NoRet]
  /\ UNCHANGED <<now, ttl, store, entries, locks, lockObjs, shares,
                 share_base_url, foreign_keys, initialized, _initialized,
                 _SCHEMA_LOCK, used, clips, request_counts, served, tracked>>

\* call_next has returned the response: an untracked request returns it;
\* a tracked one enters _increment_counter, which takes today and now and
\* suspends on "await session.execute(stmt)"
CallNextReturns(c) ==
  /\ pc[c] = "call_next"
  /\ IF ~_should_track(call[c].method, call[c].path)
       THEN /\ pc' = [pc EXCEPT ![c] = "idle"]
            /\ ret' = [ret EXCEPT ![c] = Ret("ok", Some(200), "untracked", "")]
            /\ local' = [local EXCEPT ![c] = NoLocal]
       ELSE /\ pc' = [pc EXCEPT ![c] = "select_row"]
            /\ local' = [local EXCEPT ![c].generated_at = Some(now)]
            /\ ret' = ret
  /\ UNCHANGED <<now, ttl, store, entries, locks, lockObjs, call, shares,
                 share_base_url, foreign_keys, initialized, _initialized,
                 _SCHEMA_LOCK, used, clips, request_counts, served, calls,
                 tracked>>

\* _increment_counter: the SELECT returns today's row or None; the row is
\* created or incremented in the session, and the coroutine suspends on
\* "await session.commit()"
SelectRow(c) ==
  /\ pc[c] = "select_row"
  /\ local' = [local EXCEPT ![c].record =
                 request_counts[date(TheOne(local[c].generated_at))]]
  /\ pc' = [pc EXCEPT ![c] = "commit_row"]
  /\ UNCHANGED <<now, ttl, store, entries, locks, lockObjs, call, ret, shares,
                 share_base_url, foreign_keys, initialized, _initialized,
                 _SCHEMA_LOCK, used, clips, request_counts, served, calls,
                 tracked>>

\* _increment_counter, "await session.commit()" completes: the session is
\* flushed: an INSERT of a new row with requests=1, failing with
\* IntegrityError when the date has a row by now, or an UPDATE setting the
\* row read, plus one; or the database fails (committed == FALSE) and
\* nothing is written.  dispatch catches and logs any exception and returns
\* the response.
CommitRow(c, committed) ==
  /\ pc[c] = "commit_row"
  /\ LET at == TheOne(local[c].generated_at)
         today == date(at)
         row == local[c].record
     IN  IF ~committed
           THEN /\ UNCHANGED <<request_counts, tracked>>
                /\ ret' = [ret EXCEPT ![c] =
                             Ret("ok", Some(200), "uncounted", "")]
           ELSE /\ request_counts' =
                     IF row = None
                       THEN IF request_counts[today] # None
                              THEN request_counts
                              ELSE [request_counts EXCEPT ![today] =
                                      Some([requests |-> 1,
                                            updated_at |-> at])]
                       ELSE [request_counts EXCEPT ![today] =
                               Some([requests |-> TheOne(row).requests + 1,
                                     updated_at |-> at])]
                /\ tracked' = [tracked EXCEPT ![today] = @ + 1]
                /\ ret' = [ret EXCEPT ![c] =
                             Ret("ok", Some(200), "tracked", "")]
  /\ pc' = [pc EXCEPT ![c] = "idle"]
  /\ local' = [local EXCEPT ![c] = NoLocal]
  /\ UNCHANGED <<now, ttl, store, entries, locks, lockObjs, call, shares,
                 share_base_url, foreign_keys, initialized, _initialized,
                 _SCHEMA_LOCK, used, clips, served, calls>>

\* ------------------------------------------------------ specifications
\* a share row as create_share("24h") wrote it at time 0, when the analysis
\* table was empty, in a run of the service that has ended since
CreatedRow(ttlSeconds) ==
  LET entry == [value |-> Snapshot("24h", <<>>, 0),
                expires_at |-> Some(_expiry(ttlSeconds, 0))]
      snapshot == _response_with_expiry(entry).response
  IN  InsightShareModel(_hash_token("tok1"), "24h", model_dump(snapshot),
                        snapshot.cache_expires_at, 0)

\* a row an earlier deployment left in insight_shares, whose payload the
\* current InsightResponse schema rejects
LegacyRow ==
  [token_hash |-> _hash_token("tok1"), window |-> "24h",
   payload |-> [window |-> "24h"], expires_at |-> None, created_at |-> 0,
   last_accessed_at |-> None]

\* The service has been constructed and has taken no call.  main.py has run
\* ensure_database_ready before that, and the database is the default one,
\* PostgreSQL, except where a specification says otherwise.  dispose_engine
\* is called where the cache and the aggregator are at work alone
\* (SpecCache, SpecStampede, SpecAggregate); the share store, the clip
\* store and the request counter are taken on an initialised database.
InitCommon ==
  /\ clips = Clips
  /\ store = <<>>
  /\ entries = [k \in Keys |-> None]
  /\ locks = [k \in Keys |-> None]
  /\ lockObjs = <<>>
  /\ pc = [c \in Callers |-> "idle"]
  /\ call = [c \in Callers |-> NoCall]
  /\ local = [c \in Callers |-> NoLocal]
  /\ ret = [c \in Callers |-> NoRet]
  /\ served = [k \in Keys |-> {}]
  /\ calls = 0
  /\ used = Clips
  /\ foreign_keys = TRUE
  /\ initialized = TRUE
  /\ _initialized = FALSE
  /\ _SCHEMA_LOCK = [locked |-> FALSE, waiters |-> <<>>]

\* The cache under direct calls: get, set, invalidate and get_or_set with
\* the service's factory.
InitCache ==
  /\ InitCommon
  /\ ttl \in TTLs
  /\ now = 0
  /\ shares = [h \in Hashes |-> None]
  /\ share_base_url = Some(BaseUrl)
  /\ request_counts = [d \in Dates |-> None]
  /\ tracked = [d \in Dates |-> 0]

NextCache ==
  \/ Tick
  \/ DisposeEngine
  \/ \E c \in Callers :
       \/ \E k \in Keys : CacheGet(c, k)
       \/ \E k \in Keys, e \in {None} \cup {Some(t) : t \in 0..MaxTime} :
            CacheSet(c, k, e)
       \/ \E k \in {None} \cup {Some(key) : key \in Keys} :
            CacheInvalidate(c, k)
       \/ \E k \in Keys : CacheGetOrSet(c, k)
       \/ LockAcquired(c)
       \/ SchemaLockAcquired(c)
       \/ AggregateEnsureSchema(c)
       \/ FetchRows(c)
       \/ FetchPreviousRows(c)
       \/ BuilderReturn(c)
       \/ BuilderRaise(c)

SpecCache == InitCache /\ [][NextCache]_vars

\* The cache under fair scheduling: the event loop runs every ready
\* coroutine, so a woken waiter eventually takes the lock, and every builder
\* invocation eventually returns or raises.
FairCache ==
  \A c \in Callers :
    /\ WF_vars(LockAcquired(c))
    /\ WF_vars(SchemaLockAcquired(c))
    /\ WF_vars(AggregateEnsureSchema(c))
    /\ WF_vars(FetchRows(c))
    /\ WF_vars(FetchPreviousRows(c))
    /\ WF_vars(BuilderRaise(c) \/ BuilderReturn(c))

SpecCacheFair == InitCache /\ [][NextCache]_vars /\ FairCache

\* The stampede: every caller makes one get_or_set call, all on one key
\* whose entry is missing or expired; nothing else touches the cache.
InitStampede ==
  /\ ttl \in TTLs
  /\ now \in Times
  /\ clips = Clips
  /\ store = <<>>
  /\ entries \in {[k \in Keys |-> IF k = "24h" THEN e ELSE None] :
                    e \in {None} \cup
                      { Some([value |-> Snapshot("24h", <<>>, g),
                              expires_at |-> Some(_expiry(ttl, g))]) :
                          g \in {x \in Times : _expiry(ttl, x) <= now} }}
  /\ locks = [k \in Keys |-> None]
  /\ lockObjs = <<>>
  /\ pc = [c \in Callers |-> "idle"]
  /\ call = [c \in Callers |-> NoCall]
  /\ local = [c \in Callers |-> NoLocal]
  /\ ret = [c \in Callers |-> NoRet]
  /\ served = [k \in Keys |-> {}]
  /\ calls = 0
  /\ used = Clips
  /\ foreign_keys = TRUE
  /\ initialized = TRUE
  /\ _initialized = FALSE
  /\ _SCHEMA_LOCK = [locked |-> FALSE, waiters |-> <<>>]
  /\ shares = [h \in Hashes |-> None]
  /\ share_base_url = Some(BaseUrl)
  /\ request_counts = [d \in Dates |-> None]
  /\ tracked = [d \in Dates |-> 0]

NextStampede ==
  \/ Tick
  \/ DisposeEngine
  \/ \E c \in Callers :
       \/ call[c].op = "none" /\ CacheGetOrSet(c, "24h")
       \/ LockAcquired(c)
       \/ AggregateEnsureSchema(c)
       \/ FetchRows(c)
       \/ FetchPreviousRows(c)
       \/ BuilderReturn(c)

SpecStampede == InitStampede /\ [][NextStampede]_vars

\* The service's snapshots: get_snapshot and regenerate_snapshot while the
\* analysis store is written to, on a database that enforces foreign keys
\* (PostgreSQL) or does not (SQLite, whose foreign_keys pragma the code
\* leaves off).
Init ==
  /\ clips = Clips
  /\ store = <<>>
  /\ entries = [k \in Keys |-> None]
  /\ locks = [k \in Keys |-> None]
  /\ lockObjs = <<>>
  /\ pc = [c \in Callers |-> "idle"]
  /\ call = [c \in Callers |-> NoCall]
  /\ local = [c \in Callers |-> NoLocal]
  /\ ret = [c \in Callers |-> NoRet]
  /\ served = [k \in Keys |-> {}]
  /\ calls = 0
  /\ used = Clips
  /\ foreign_keys \in BOOLEAN
  /\ initialized = TRUE
  /\ _initialized = FALSE
  /\ _SCHEMA_LOCK = [locked |-> FALSE, waiters |-> <<>>]
  /\ ttl \in TTLs
  /\ now \in StartTimes
  /\ shares = [h \in Hashes |-> None]
  /\ share_base_url = Some(BaseUrl)
  /\ request_counts = [d \in Dates |-> None]
  /\ tracked = [d \in Dates |-> 0]

Next ==
  \/ Tick
  \/ \E c \in Callers :
       \/ \E raw \in FewWindowArgs, regenerate \in BOOLEAN :
            GetSnapshot(c, raw, regenerate)
       \/ \E id \in Clips \cup {"clip2"} : CreateClip(c, id)
       \/ CreateClipCommit(c)
       \/ \E clip \in used, moments \in StoredMoments :
            SaveAnalysis(c, clip, moments)
       \/ SaveAnalysisGet(c)
       \/ SaveAnalysisCommit(c)
       \/ SaveAnalysisRefreshClip(c)
       \/ SaveAnalysisRefreshAnalysis(c)
       \/ \E clip \in used : DeleteClip(c, clip)
       \/ DeleteClipGet(c)
       \/ DeleteClipCommit(c)
       \/ LockAcquired(c)
       \/ FetchRows(c)
       \/ FetchPreviousRows(c)
       \/ BuilderReturn(c)
       \/ BuilderRaise(c)

Spec == Init /\ [][Next]_vars

\* The service's shares: create_share and get_shared_snapshot beside
\* get_snapshot.
InitShare ==
  /\ InitCommon
  /\ ttl \in TTLs
  /\ now = 0
  /\ shares \in { [h \in Hashes |-> None],
                  [h \in Hashes |-> IF h = CreatedRow(ttl).token_hash
                                      THEN Some(CreatedRow(ttl)) ELSE None] }
  /\ share_base_url = Some(BaseUrl)
  /\ request_counts = [d \in Dates |-> None]
  /\ tracked = [d \in Dates |-> 0]

NextShare ==
  \/ Tick
  \/ \E c \in Callers :
       \/ \E raw \in FewWindowArgs, e \in {None, Some(MaxTime)} :
            CreateShare(c, raw, e)
       \/ \E committed \in BOOLEAN : CreateShareCommit(c, committed)
       \/ \E t \in Tokens : CreateShareRollback(c, t)
       \/ CreateShareRefresh(c)
       \/ \E t \in Tokens, w \in OverrideArgs : GetSharedSnapshot(c, t, w)
       \/ GetShareGet(c)
       \/ \E committed \in BOOLEAN : GetShareCommit(c, committed)
       \/ GetShareRefresh(c)
       \/ GetShareClose(c)
       \/ UpdatePayloadGet(c)
       \/ \E committed \in BOOLEAN : UpdatePayloadCommit(c, committed)
       \/ LockAcquired(c)
       \/ FetchRows(c)
       \/ FetchPreviousRows(c)
       \/ BuilderReturn(c)
       \/ BuilderRaise(c)

SpecShare == InitShare /\ [][NextShare]_vars

\* create_share under every setting of the share base URL.
InitCreate ==
  /\ InitCommon
  /\ ttl = 1
  /\ now = 0
  /\ shares = [h \in Hashes |-> None]
  /\ share_base_url \in BaseUrls
  /\ request_counts = [d \in Dates |-> None]
  /\ tracked = [d \in Dates |-> 0]

NextCreate ==
  \/ Tick
  \/ \E c \in Callers :
       \/ \E raw \in FewWindowArgs, e \in {None, Some(MaxTime)} :
            CreateShare(c, raw, e)
       \/ \E committed \in BOOLEAN : CreateShareCommit(c, committed)
       \/ \E t \in Tokens : CreateShareRollback(c, t)
       \/ CreateShareRefresh(c)
       \/ LockAcquired(c)
       \/ FetchRows(c)
       \/ FetchPreviousRows(c)
       \/ BuilderReturn(c)
       \/ BuilderRaise(c)

SpecCreate == InitCreate /\ [][NextCreate]_vars

\* The share store under direct calls (create_share, get_share,
\* update_payload) beside the service's get_shared_snapshot.
InitStore ==
  /\ InitCommon
  /\ ttl = 1
  /\ now = 0
  /\ shares \in { [h \in Hashes |-> None],
                  [h \in Hashes |-> IF h = LegacyRow.token_hash
                                      THEN Some(LegacyRow) ELSE None] }
  /\ share_base_url = Some(BaseUrl)
  /\ request_counts = [d \in Dates |-> None]
  /\ tracked = [d \in Dates |-> 0]

NextStore ==
  \/ Tick
  \/ \E c \in Callers :
       \/ \E w \in Keys, e \in {None, Some(MaxTime)}, t \in Tokens :
            StoreCreateShare(c, w, e, t)
       \/ \E t \in Tokens : StoreGetShare(c, t)
       \/ \E t \in Tokens, w \in Keys, e \in {None, Some(MaxTime)} :
            StoreUpdatePayload(c, t, w, e)
       \/ \E t \in Tokens, w \in OverrideArgs : GetSharedSnapshot(c, t, w)
       \/ \E committed \in BOOLEAN : CreateShareCommit(c, committed)
       \/ \E t \in Tokens : CreateShareRollback(c, t)
       \/ CreateShareRefresh(c)
       \/ GetShareGet(c)
       \/ \E committed \in BOOLEAN : GetShareCommit(c, committed)
       \/ GetShareRefresh(c)
       \/ GetShareClose(c)
       \/ UpdatePayloadGet(c)
       \/ \E committed \in BOOLEAN : UpdatePayloadCommit(c, committed)
       \/ LockAcquired(c)
       \/ FetchRows(c)
       \/ FetchPreviousRows(c)
       \/ BuilderReturn(c)
       \/ BuilderRaise(c)

SpecStore == InitStore /\ [][NextStore]_vars

\* The aggregator as a function of (window, now, analysis table): the
\* reference instants are 10:00 and 10:30 of one day, the records lie
\* around the window's ends and around now; their events carry severities
\* and labels as the JSON column can hold them.
AggNows == {20 * Day + 10 * Hour, 20 * Day + 10 * Hour + 1}

MomentChoices ==
  LET Intrusion == Str(<<"i", "n", "t", "r", "u", "s", "i", "o", "n">>)
  IN
  { <<[severity |-> Some(Str(<<"h", "i", "g", "h">>)),
       label |-> Some(Intrusion)],
      [severity |-> Some(Str(<<"H", "I", "G", "H", " ">>)),
       label |-> Some(Str(<<" ">>) \o Intrusion \o Str(<<" ">>))]>>,
    <<[severity |-> Some(Str(<<"l", "o", "w">>)),
       label |-> Some(Str(<<"d", "r", "i", "v", "e", "r", "'", "s", " ",
                            "d", "o", "o", "r">>))],
      [severity |-> Some(Str(<<"c", "r", "i", "t", "i", "c", "a", "l">>)),
       label |-> Some(Intrusion)]>>,
    <<[severity |-> Some(Str(<<" ", "m", "e", "d", " ">>)),
       label |-> Some([i \in 1..79 |-> ord("a")] \o Str(<<" ", "b">>))],
      [severity |-> Some(Str(<<"M", "e", "d", "i", "u", "m">>)),
       label |-> None]>>,
    <<[severity |-> Some(Str(<<"H", "i", "g", "h">>)),
       label |-> Some(Str(<<"I", "N", "T", "R", "U", "S", "I", "O", "N">>))],
      [severity |-> None, label |-> Some(Intrusion)]>>,
    <<[severity |-> Some(Str(<<"s", "e", "v", "e", "r", "e">>) \o <<10>>),
       label |-> Some(<<>>)],
      [severity |-> Some(Str(<<"l", "o", "w">>)),
       label |-> Some(<<223, 49, 32, 931>>)]>> }

RecordChoices(t) ==
  {[created_at |-> at, moments |-> ms] :
     at \in {t - 8 * Day, t - 30 * Hour, t - 20 * Hour, t, t + 1, t + Day},
     ms \in MomentChoices}

Tables(t) ==
  UNION {[1..n -> RecordChoices(t)] : n \in 0..MaxRecords}

InitAggregate ==
  /\ now \in AggNows
  /\ ttl = 1
  /\ clips = Clips
  /\ store \in Tables(now)
  /\ entries = [k \in Keys |-> None]
  /\ locks = [k \in Keys |-> None]
  /\ lockObjs = <<>>
  /\ pc = [c \in Callers |-> "idle"]
  /\ call = [c \in Callers |-> NoCall]
  /\ local = [c \in Callers |-> NoLocal]
  /\ ret = [c \in Callers |-> NoRet]
  /\ served = [k \in Keys |-> {}]
  /\ calls = 0
  /\ used = Clips
  /\ foreign_keys = TRUE
  /\ initialized \in BOOLEAN
  /\ _initialized = FALSE
  /\ _SCHEMA_LOCK = [locked |-> FALSE, waiters |-> <<>>]
  /\ shares = [h \in Hashes |-> None]
  /\ share_base_url = Some(BaseUrl)
  /\ request_counts = [d \in Dates |-> None]
  /\ tracked = [d \in Dates |-> 0]

NextAggregate ==
  \/ DisposeEngine
  \/ \E c \in Callers :
       \/ \E w \in Keys : Aggregate(c, w)
       \/ AggregateEnsureSchema(c)
       \/ FetchRows(c)
       \/ FetchPreviousRows(c)
       \/ AggregateReturn(c)

SpecAggregate == InitAggregate /\ [][NextAggregate]_vars

\* The request counter: requests pass through the middleware, their
\* handlers and counter updates interleaving.
Paths ==
  { Str(<<"/", "a", "p", "i", "/", "p", "i", "n", "g">>),
    Str(<<"/", "a", "p", "i">>),
    Str(<<"/", "h", "e", "a", "l", "t", "h", "z">>),
    Str(<<"/", "a", "p">>) }

InitCounter ==
  /\ InitCommon
  /\ ttl \in TTLs
  /\ now \in StartTimes
  /\ shares = [h \in Hashes |-> None]
  /\ share_base_url = Some(BaseUrl)
  /\ request_counts = [d \in Dates |-> None]
  /\ tracked = [d \in Dates |-> 0]

NextCounter ==
  \/ Tick
  \/ \E c \in Callers :
       \/ \E method \in {"GET", "OPTIONS"}, path \in Paths : Dispatch(c, method, path)
       \/ CallNextReturns(c)
       \/ SelectRow(c)
       \/ \E committed \in BOOLEAN : CommitRow(c, committed)

SpecCounter == InitCounter /\ [][NextCounter]_vars

\* Invalidation: invalidate(key), invalidate() and regenerate_snapshot
\* beside get_snapshot.
InitInvalidate ==
  /\ InitCommon
  /\ ttl \in TTLs
  /\ now = 0
  /\ shares = [h \in Hashes |-> None]
  /\ share_base_url = Some(BaseUrl)
  /\ request_counts = [d \in Dates |-> None]
  /\ tracked = [d \in Dates |-> 0]

NextInvalidate ==
  \/ Tick
  \/ \E c \in Callers :
       \/ \E k \in {None} \cup {Some(key) : key \in Keys} :
            CacheInvalidate(c, k)
       \/ \E raw \in WindowArgs, regenerate \in BOOLEAN :
            GetSnapshot(c, raw, regenerate)
       \/ LockAcquired(c)
       \/ FetchRows(c)
       \/ FetchPreviousRows(c)
       \/ BuilderReturn(c)
       \/ BuilderRaise(c)

SpecInvalidate == InitInvalidate /\ [][NextInvalidate]_vars

\* =============================================================== claims
\* the callers whose get_or_set is running the builder for key: in
\* aggregate's _ensure_schema or in its SELECTs
Builders(key) ==
  {c \in Callers : /\ pc[c] \in {"building", "ensure_schema", "schema_lock"}
                   /\ call[c].key = key}

\* C1: for every key and TTL, whatever get, set, invalidate and get_or_set
\* calls interleave, at most one invocation of the builder for that key is
\* in progress at any moment.
C1_AtMostOneBuilderPerKey ==
  \A key \in Keys : Cardinality(Builders(key)) <= 1

\* C1 witness: a builder runs for a key while another get_or_set call on
\* that key waits for the lock.
C1_Witness ==
  \E c1, c2 \in Callers :
    /\ pc[c1] = "building" /\ pc[c2] = "await_lock"
    /\ call[c1].key = call[c2].key

AllReturned == \A c \in Callers : call[c].op = "get_or_set" /\ pc[c] = "idle"
BuiltBy == {c \in Callers : ret[c].via = "built"}
\* no entry handed out in the race has expired yet
StillFresh ==
  \A c \in Callers : \A e \in ret[c].val : TheOne(e.expires_at) > now

\* C2: N >= 2 get_or_set calls race on one key whose entry is missing or
\* expired, the TTL is positive, the new entry does not expire during the
\* race and the builder succeeds: the builder ran exactly once and every
\* caller received the same value.
C2_StampedeCollapse ==
  (AllReturned /\ ttl > 0 /\ StillFresh) =>
    /\ Cardinality(BuiltBy) = 1
    /\ \A c1, c2 \in Callers : ret[c1].val = ret[c2].val
    /\ \A c \in Callers : ret[c].status = "ok" /\ ret[c].val = entries["24h"]

\* C2 witness: with a positive TTL all callers have returned, one of them
\* after waiting for the lock the builder held.
C2_Witness ==
  /\ AllReturned /\ ttl > 0 /\ StillFresh
  /\ lockObjs # <<>>
  /\ \E c \in Callers : call[c].waited /\ ret[c].via = "cache"

\* C3 (as claimed): with a TTL <= 0 the builder still runs once for a group
\* of get_or_set calls in flight together on one key (one of them waited
\* for the lock while another held it).
C3_CollapseWithoutTtl ==
  (AllReturned /\ ttl <= 0 /\ \E c \in Callers : call[c].waited)
    => Cardinality(BuiltBy) = 1

LockHolders(id) ==
  {c \in Callers : /\ pc[c] \in {"building", "ensure_schema", "schema_lock"}
                   /\ local[c].lock = Some(id)}

\* C4: when the builder raises inside get_or_set(key) the exception reaches
\* the caller, no entry is stored and the per-key lock is released: a lock
\* is held only by a caller whose builder is running, so the next
\* get_or_set(key) is not blocked and builds again.
C4_BuilderFailureLeavesNoTrace ==
  /\ [](\A id \in 1..Len(lockObjs) :
          lockObjs[id].locked => LockHolders(id) # {})
  /\ [][\A c \in Callers :
          BuilderRaise(c) =>
            /\ ret'[c].status = "raised" /\ ret'[c].val = None
            /\ pc'[c] = "idle"
            /\ entries' = entries
            /\ ~lockObjs'[TheOne(local[c].lock)].locked
            /\ \A c2 \in Callers : local'[c2].lock # local[c].lock
                                   \/ pc'[c2] = "await_lock"]_vars

\* C4 witness: a get_or_set call has raised and a later call on the same
\* key is running the builder again.
C4_Witness ==
  \E c1, c2 \in Callers :
    /\ call[c1].op = "get_or_set" /\ ret[c1].status = "raised"
    /\ pc[c1] = "idle"
    /\ pc[c2] = "building" /\ call[c2].key = call[c1].key
    /\ entries[call[c1].key] = None

Expired(e, t) == e.expires_at # None /\ TheOne(e.expires_at) <= t

GetReturned(c) ==
  \/ \E k \in Keys : CacheGet(c, k)
  \/ /\ (\E k \in Keys : CacheGetOrSet(c, k)) \/ LockAcquired(c)
     /\ pc'[c] = "idle"

\* C5: an entry returned by get(key) has expires_at None or later than the
\* time of the call; an entry get finds expired is removed from the entry
\* map and the call reports a miss.
C5_GetNeverReturnsExpired ==
  [][\A c \in Callers :
       GetReturned(c) =>
         /\ \A e \in ret'[c].val : e.expires_at = None
                                  \/ TheOne(e.expires_at) > now
         /\ \A k \in Keys :
              (CacheGet(c, k) /\ entries[k] # None
                 /\ Expired(TheOne(entries[k]), now)) =>
                (ret'[c].status = "miss" /\ ret'[c].val = None
                   /\ entries'[k] = None)]_vars

\* C5 witness: get has reported a miss on a key whose entry, put there by
\* set, had expired, and the entry is gone.
C5_Witness ==
  \E c1, c2 \in Callers :
    /\ call[c1].op = "set" /\ call[c2].op = "get"
    /\ call[c1].key = call[c2].key
    /\ ret[c2].status = "miss"
    /\ Expired(TheOne(ret[c1].val), now)
    /\ entries[call[c1].key] = None

SnapshotReturned(c) ==
  /\ call'[c].op = "get_snapshot" /\ pc'[c] = "idle" /\ ret'[c].status = "ok"
  /\ \/ \E raw \in FewWindowArgs, regenerate \in BOOLEAN :
          GetSnapshot(c, raw, regenerate)
     \/ LockAcquired(c)
     \/ BuilderReturn(c)

\* C6: once a get_snapshot(w) has populated the cache, and until that entry
\* expires or is invalidated, every get_snapshot(w) returns the summary and
\* severity_totals of the first call, whatever is written to the store.
C6_CachedSnapshotIsStable ==
  \A key \in Keys : Cardinality(served[key]) <= 1

\* C6 witness: get_snapshot(w, regenerate=false) was answered from the
\* cache after the store had gained a record the snapshot does not count.
C6_Witness ==
  \E c \in Callers :
    /\ call[c].op = "get_snapshot" /\ ~call[c].regen
    /\ pc[c] = "idle" /\ ret[c].status = "ok" /\ ret[c].via = "cache"
    /\ LET t == TheOne(ret[c].val).severity_totals
       IN  t.low + t.medium + t.high < Len(FlattenMoments(store))
    /\ served[call[c].key] = {Content(TheOne(ret[c].val))}

\* no delete_clip has removed a row: every id drawn is a clip, or the clip
\* a create_clip is about to insert
NoClipDeleted ==
  \A id \in used :
    \/ id \in clips
    \/ \E d \in Callers : pc[d] = "create_clip_commit" /\ call[d].clip = id

\* C7 (as claimed): in every interleaving, the snapshot regenerate_snapshot(w)
\* returns is aggregated from a store read made after the call began, so,
\* no clip having been deleted, it counts every high-severity record
\* written before the call.
C7_RegenerateSeesEarlierWrites ==
  \A c \in Callers :
    (call[c].op = "get_snapshot" /\ call[c].regen /\ pc[c] = "idle"
       /\ ret[c].status = "ok" /\ NoClipDeleted) =>
      TheOne(ret[c].val).severity_totals.high >= call[c].high_at_call

\* C8: a snapshot returned by get_snapshot has cache_expires_at equal to
\* the expires_at of the cache entry it was served from, and the build step
\* leaves cache_expires_at None.
C8_ExpiryComesFromTheEntry ==
  /\ [](\A w \in Keys : Snapshot(w, store, now).cache_expires_at = None)
  /\ [][\A c \in Callers :
          SnapshotReturned(c) =>
            /\ entries'[call'[c].key] # None
            /\ TheOne(ret'[c].val).cache_expires_at =
                 TheOne(entries'[call'[c].key]).expires_at]_vars

\* C8 witness: get_snapshot has returned a snapshot carrying the expiry of
\* the entry cached for its window.
C8_Witness ==
  \E c \in Callers :
    /\ call[c].op = "get_snapshot" /\ pc[c] = "idle" /\ ret[c].status = "ok"
    /\ entries[call[c].key] # None
    /\ TheOne(ret[c].val).cache_expires_at # None
    /\ TheOne(ret[c].val).cache_expires_at =
         TheOne(entries[call[c].key]).expires_at

\* get_shared_snapshot's live snapshot fails in this step: the builder it
\* runs raises
LiveSnapshotFails(c) ==
  /\ call[c].op = "get_shared_snapshot"
  /\ BuilderRaise(c)

\* C9 (as claimed): in get_shared_snapshot, when obtaining the live
\* snapshot fails and the payload persisted in the share row parses, the
\* call returns that persisted payload unchanged instead of failing, and
\* the share table is left as it was.
C9_FallbackServesPersistedPayload ==
  [][\A c \in Callers :
       LET row == shares[_hash_token(call[c].token)]
       IN  LiveSnapshotFails(c)
             /\ row # None
             /\ model_validate(TheOne(row).payload) # None
           => /\ ret'[c].status = "ok"
              /\ pc'[c] = "idle"
              /\ model_dump(TheOne(ret'[c].val)) = TheOne(row).payload
              /\ shares' = shares]_vars

\* C9 (amended): in get_shared_snapshot, when obtaining the live snapshot
\* fails and the payload of the share record parses as this call's
\* get_share read it, the call returns that payload unchanged instead of
\* failing, and the share table is left as it was; a payload another call
\* has persisted since that read is not the one returned.
C9_FallbackServesPayloadRead ==
  [][\A c \in Callers :
       LiveSnapshotFails(c)
         /\ model_validate(TheOne(local[c].record).payload) # None
       => /\ ret'[c].status = "ok"
          /\ pc'[c] = "idle"
          /\ model_dump(TheOne(ret'[c].val)) = TheOne(local[c].record).payload
          /\ shares' = shares]_vars

\* C9 witness: get_shared_snapshot has returned through the fallback the
\* payload its get_share read, while the share row holds a payload that
\* another get_shared_snapshot has written back since.
C9_Witness ==
  \E c \in Callers :
    /\ call[c].op = "get_shared_snapshot" /\ pc[c] = "idle"
    /\ ret[c].status = "ok" /\ ret[c].via = "fallback"
    /\ shares[_hash_token(call[c].token)] # None
    /\ model_dump(TheOne(ret[c].val)) = CreatedRow(ttl).payload
    /\ TheOne(shares[_hash_token(call[c].token)]).payload
         # CreatedRow(ttl).payload

\* C10 (as claimed): in get_shared_snapshot, once the live snapshot has
\* been computed, the write-back to the share store, failing or not, leaves
\* the result alone: the call returns the computed snapshot.
C10_WriteBackFailureIsIgnored ==
  [][\A c \in Callers :
       /\ (UpdatePayloadGet(c) /\ call[c].op = "get_shared_snapshot")
            => pc'[c] = "update_commit"
       /\ \A committed \in BOOLEAN :
            (UpdatePayloadCommit(c, committed)
               /\ call[c].op = "get_shared_snapshot")
            => /\ ret'[c].status = "ok"
               /\ ret'[c].val = local[c].snap]_vars

\* C11 (as claimed): get_share(token) for a known token returns the share
\* record even when persisting the updated last_accessed_at fails: the
\* commit, failing or not, is followed by the read that returns the record.
C11_GetShareSurvivesBookkeepingFailure ==
  [][\A c \in Callers :
       /\ \A committed \in BOOLEAN :
            (GetShareCommit(c, committed) /\ call[c].op = "get_share")
            => pc'[c] = "get_share_refresh"
       /\ (GetShareRefresh(c) /\ call[c].op = "get_share")
            => pc'[c] = "get_share_close"
       /\ (GetShareClose(c) /\ call[c].op = "get_share")
            => /\ ret'[c].status = "ok"
               /\ ret'[c].val # None
               /\ TheOne(ret'[c].val).token_hash
                    = _hash_token(call[c].token)]_vars

\* the window argument value, with surrounding whitespace removed and in
\* lower case, is the supported window w
Names(value, w) ==
  /\ value # None
  /\ LET s == TheOne(value)
         n == Len(WindowChars(w))
     IN  \E i \in 1..(Len(s) + 1) :
           /\ i + n - 1 <= Len(s)
           /\ \A k \in 1..(i - 1) : s[k] \in Whitespace
           /\ \A k \in (i + n)..Len(s) : s[k] \in Whitespace
           /\ \A k \in 1..n :
                s[i + k - 1] \in {WindowChars(w)[k]}
                  \cup (IF WindowChars(w)[k] = ord("h") THEN {ord("H")}
                                                        ELSE {})
                  \cup (IF WindowChars(w)[k] = ord("d") THEN {ord("D")}
                                                        ELSE {})

\* C12: in get_shared_snapshot, once the share record has been read, a
\* supplied window override that is not the record's stored window makes
\* the call fail with a validation error (ValueError); the window check
\* passes only when the override is absent (None or empty) or names the
\* stored window.
C12_WindowOverrideMustMatch ==
  [][\A c \in Callers :
       (GetShareClose(c) /\ call[c].op = "get_shared_snapshot")
       => LET stored == TheOne(shares[_hash_token(call[c].token)]).window
              w == call[c].window
              supplied == w # None /\ TheOne(w) # <<>>
              same == Names(w, stored)
          IN  /\ supplied /\ ~same
                   => /\ pc'[c] = "idle"
                      /\ ret'[c].status = "raised"
                      /\ ret'[c].err = "ValueError"
              /\ ret'[c].err # "ValueError" => ~supplied \/ same
              /\ ~supplied \/ same => ret'[c].err # "ValueError"]_vars

\* C12 witness: a get_shared_snapshot on a known token has failed the
\* window check on the override "7d", and another, with the override
\* "\t24H\n", has passed it.
C12_Witness ==
  \E c, d \in Callers :
    /\ call[c].op = "get_shared_snapshot" /\ pc[c] = "idle"
    /\ shares[_hash_token(call[c].token)] # None
    /\ call[c].window = Some(Str(<<"7", "d">>))
    /\ ret[c].status = "raised" /\ ret[c].err = "ValueError"
    /\ call[d].op = "get_shared_snapshot"
    /\ call[d].window = Some(<<9>> \o Str(<<"2", "4", "H">>) \o <<10>>)
    /\ pc[d] \notin {"idle", "get_share_get", "get_share_commit",
                     "get_share_refresh", "get_share_close"}

\* C13: once a share row is persisted, no get_share, update_payload or
\* get_shared_snapshot (nor any other step) removes it or changes its
\* token_hash or window; only payload, expires_at and last_accessed_at are
\* modified, and the row stays keyed by its token_hash.
C13_ShareRowIdentityIsStable ==
  /\ [](\A h \in Hashes :
          shares[h] # None => TheOne(shares[h]).token_hash = h)
  /\ [][\A h \in Hashes :
          shares[h] # None
          => /\ shares'[h] # None
             /\ TheOne(shares'[h]).token_hash = TheOne(shares[h]).token_hash
             /\ TheOne(shares'[h]).window = TheOne(shares[h]).window
             /\ TheOne(shares'[h]).created_at = TheOne(shares[h]).created_at]_vars

\* C13 witness: update_payload has rewritten the payload of a row that
\* create_share persisted.
C13_Witness ==
  \E c \in Callers :
    /\ call[c].op = "update_payload" /\ ret[c].status = "ok"
    /\ shares[_hash_token(call[c].token)] # None
    /\ LET row == TheOne(shares[_hash_token(call[c].token)])
       IN  /\ row.last_accessed_at # None
           /\ model_validate(row.payload) # None
           /\ row.token_hash = _hash_token(call[c].token)
           /\ \E d \in Callers : call[d].op = "store_create_share"
                                   /\ ret[d].status = "ok"
                                   /\ call[d].token = call[c].token

\* C14: create_share draws a fresh token after each collision with an
\* existing row (the commit's IntegrityError) and makes at most 5 attempts:
\* the fifth collision fails with RuntimeError, and no collision adds a
\* row, nor does a commit the database fails otherwise; an attempt that
\* succeeds adds exactly one row, keyed by its token's hash, every other
\* row unchanged, and the call returns that token.
C14_CreateShareRetriesFiveTimes ==
  /\ [](\A c \in Callers :
          pc[c] \in {"create_commit", "create_rollback"}
            => local[c].attempt \in 0..4)
  /\ [][\A c \in Callers :
          call[c].op = "store_create_share"
          => LET h == _hash_token(call[c].token)
             IN  /\ \A committed \in BOOLEAN :
                      CreateShareCommit(c, committed)
                      => IF ~committed
                           THEN shares' = shares
                           ELSE IF shares[h] # None
                             THEN /\ shares' = shares
                                  /\ pc'[c] = "create_rollback"
                             ELSE /\ pc'[c] = "create_refresh"
                                  /\ shares'[h] # None
                                  /\ TheOne(shares'[h]).token_hash = h
                                  /\ \A g \in Hashes \ {h} :
                                       shares'[g] = shares[g]
                 /\ \A t \in Tokens :
                      CreateShareRollback(c, t)
                      => /\ shares' = shares
                         /\ IF local[c].attempt + 1 = 5
                              THEN /\ pc'[c] = "idle"
                                   /\ ret'[c].status = "raised"
                                   /\ ret'[c].err = "RuntimeError"
                              ELSE /\ pc'[c] = "create_commit"
                                   /\ local'[c].attempt = local[c].attempt + 1
                                   /\ call'[c].token = t
                                   /\ ret'[c] = ret[c]
                 /\ CreateShareRefresh(c)
                      => /\ shares' = shares
                         /\ ret'[c].status = "ok"
                         /\ TheOne(ret'[c].val).token = call[c].token
                         /\ TheOne(ret'[c].val).record.token_hash = h]_vars

\* C14 witness: a create_share has given up after its fifth collision.
C14_Witness ==
  \E c \in Callers :
    /\ call[c].op = "store_create_share" /\ pc[c] = "idle"
    /\ ret[c].status = "raised" /\ ret[c].err = "RuntimeError"

\* C15: get_share and update_payload on a token whose salted hash has no
\* row fail with ShareTokenNotFoundError and leave the share table as it
\* was.
C15_UnknownTokenIsNotFound ==
  [][\A c \in Callers :
       shares[_hash_token(call[c].token)] = None
       => /\ (GetShareGet(c) /\ call[c].op = "get_share")
               => /\ pc'[c] = "idle"
                  /\ ret'[c].status = "raised"
                  /\ ret'[c].err = "ShareTokenNotFoundError"
                  /\ shares' = shares
          /\ (UpdatePayloadGet(c) /\ call[c].op = "update_payload")
               => /\ pc'[c] = "idle"
                  /\ ret'[c].status = "raised"
                  /\ ret'[c].err = "ShareTokenNotFoundError"
                  /\ shares' = shares]_vars

\* C15 witness: a get_share and an update_payload have both failed on a
\* token that has no row.
C15_Witness ==
  \E c, d \in Callers :
    /\ call[c].op = "get_share" /\ call[d].op = "update_payload"
    /\ ret[c].err = "ShareTokenNotFoundError"
    /\ ret[d].err = "ShareTokenNotFoundError"
    /\ shares[_hash_token(call[c].token)] = None
    /\ shares[_hash_token(call[d].token)] = None

\* the strings a persisted payload holds
\* the strings a payload holds: the enumerated ones (the window, the
\* summary's source and sentences) and the free text (the labels, as the
\* top labels and as the words of the summary)
PayloadNames(payload) ==
  {payload.window} \cup
  (IF "summary" \in DOMAIN payload
     THEN {payload.summary_source}
          \cup {payload.summary[i].text : i \in DOMAIN payload.summary}
     ELSE {})
PayloadText(payload) ==
  IF "summary" \in DOMAIN payload
    THEN UNION {{payload.summary[i].words[j] :
                   j \in DOMAIN payload.summary[i].words} :
                i \in DOMAIN payload.summary}
         \cup {payload.top_labels[i].label : i \in DOMAIN payload.top_labels}
    ELSE {}

\* C16: the plaintext token is never persisted: no row is keyed by a
\* token itself (the key is the salted hash, which differs from the token)
\* and neither the window nor any string of the payload of any row is a
\* token; the remaining fields are instants, not strings.
C16_PlaintextTokenNeverPersisted ==
  \A h \in Hashes, t \in Tokens :
    shares[h] # None
    => LET row == TheOne(shares[h])
       IN  /\ row.token_hash # <<t>>
           /\ row.token_hash = <<"sha256", token_salt, ":",
                                  row.token_hash[Len(row.token_hash)]>>
           /\ row.window # t
           /\ t \notin PayloadNames(row.payload)
           /\ TokenChars(t) \notin PayloadText(row.payload)

\* C16 witness: create_share has returned a token whose row is persisted
\* under the token's salted hash.
C16_Witness ==
  \E c \in Callers :
    /\ call[c].op = "store_create_share" /\ ret[c].status = "ok"
    /\ TheOne(ret[c].val).token \in Tokens
    /\ shares[_hash_token(TheOne(ret[c].val).token)] # None
    /\ model_validate(
         TheOne(shares[_hash_token(TheOne(ret[c].val).token)]).payload) # None

\* an aggregate call has returned to caller c
AggregateReturned(c) == call[c].op = "aggregate" /\ ret[c].status = "ok"
\* the first bucket edge of the window at the instant t
FirstEdge(window, t) ==
  (t - (t % BucketSize(window)))
    - BucketSize(window) * (BucketCount(window) - 1)
\* what a result counts of its current set
Counted(r) ==
  [analyses |-> r.analyses,
   high_severity_analyses |-> r.high_severity_analyses,
   severity_totals |-> r.severity_totals,
   series |-> r.series,
   top_labels |-> r.top_labels]

\* C17: aggregate(window, now) takes as its current set exactly the records
\* with first_edge <= created_at <= now: the records created before
\* first_edge or after now contribute to none of analyses,
\* high_severity_analyses, severity_totals, series and top_labels, so the
\* result counts what it would count without them.
C17_CurrentSetIsFirstEdgeToNow ==
  \A c \in Callers :
    AggregateReturned(c)
    => LET window == call[c].key
           inside == SelectSeq(
                       store,
                       LAMBDA row : /\ FirstEdge(window, now) <= row.created_at
                                    /\ row.created_at <= now)
       IN  Counted(TheOne(ret[c].val)) =
             Counted(aggregate(window, CurrentRows(window, inside, now),
                               PreviousRows(window, inside, now), now))

SeveritySum(t) == t.low + t.medium + t.high
RECURSIVE SumTotals(_)
SumTotals(series) ==
  IF series = <<>> THEN 0 ELSE Head(series).total + SumTotals(Tail(series))
RECURSIVE SumSeverities(_)
SumSeverities(series) ==
  IF series = <<>> THEN 0
  ELSE SeveritySum(Head(series).severity) + SumSeverities(Tail(series))
SeriesTotal(r) == SumTotals(r.series)
\* the fetched current set of a call, and those of it that fall on no edge
Fetched(c) ==
  _fetch_rows(store, FirstEdge(call[c].key, now), None)
OffEdge(c) ==
  SelectSeq(Fetched(c),
            LAMBDA row :
              \A i \in 1..BucketCount(call[c].key) :
                FirstEdge(call[c].key, now) + (i - 1) * BucketSize(call[c].key)
                  # row.created_at - (row.created_at % BucketSize(call[c].key)))

\* C18: a record of the fetched current set whose truncated timestamp
\* matches no bucket edge is left out of the series but still counts toward
\* analyses: analyses is the size of the fetched set, the series holds the
\* records that matched an edge.
C18_OffEdgeRecordStillCounts ==
  \A c \in Callers :
    AggregateReturned(c)
    => /\ TheOne(ret[c].val).analyses = Len(Fetched(c))
       /\ SeriesTotal(TheOne(ret[c].val)) = Len(Fetched(c)) - Len(OffEdge(c))

\* C19: conservation: the series totals sum to at most analyses, and when
\* every fetched record falls on a bucket edge the window-wide severity
\* totals sum to the severity counts summed over all buckets.
C19_Conservation ==
  \A c \in Callers :
    AggregateReturned(c)
    => LET r == TheOne(ret[c].val)
       IN  /\ SeriesTotal(r) <= r.analyses
           /\ OffEdge(c) = <<>>
                => SeveritySum(r.severity_totals) =
                     SumSeverities(r.series)

\* C19 witness: an aggregate over two records, all on bucket edges, one of
\* them with two events.
C19_Witness ==
  \E c \in Callers :
    /\ AggregateReturned(c)
    /\ OffEdge(c) = <<>>
    /\ TheOne(ret[c].val).analyses = 2
    /\ SeriesTotal(TheOne(ret[c].val)) = 2
    /\ SeveritySum(TheOne(ret[c].val).severity_totals) = 3

\* C20: the bucket edges are a function of (now, window) alone: exactly
\* bucket_count edges (24 for 24h, 7 for 7d), one quantum apart, the last
\* one being now truncated to the quantum (the hour, the UTC day).
C20_BucketEdgesAreAligned ==
  \A c \in Callers :
    AggregateReturned(c)
    => LET series == TheOne(ret[c].val).series
           n == IF call[c].key = "24h" THEN 24 ELSE 7
           q == IF call[c].key = "24h" THEN Hour ELSE Day
       IN  /\ Len(series) = n
           /\ \A i \in 1..(n - 1) :
                series[i + 1].bucket_start - series[i].bucket_start = q
           /\ series[n].bucket_start % q = 0
           /\ series[n].bucket_start <= now
           /\ now < series[n].bucket_start + q
           /\ \A i \in 1..n :
                series[i].bucket_start = (now - (now % q)) - (n - i) * q

\* C20 witness: an aggregate of the 24h window at half past the hour has
\* returned its 24 buckets, and one of the 7d window its 7.
C20_Witness ==
  \E c \in Callers :
    /\ AggregateReturned(c)
    /\ now % Hour # 0
    /\ Len(TheOne(ret[c].val).series) = 24
    /\ TheOne(ret[c].val).series[24].bucket_start = now - 1

\* the records of the table in the current window, [first_edge, now], and
\* in the previous one, [first_edge - window_duration, first_edge)
CurrentWindow(c) ==
  SelectSeq(store,
            LAMBDA row :
              /\ FirstEdge(call[c].key, now) <= row.created_at
              /\ row.created_at <= now)
PreviousWindow(c) ==
  SelectSeq(store,
            LAMBDA row :
              /\ FirstEdge(call[c].key, now) - _window_duration(call[c].key)
                   <= row.created_at
              /\ row.created_at < FirstEdge(call[c].key, now))
\* the records with at least one high-severity event, each counted once
HighRecords(rows) ==
  Cardinality({i \in DOMAIN rows :
                 \E j \in DOMAIN rows[i].moments :
                   _normalize_severity(rows[i].moments[j].severity)
                     = Some("high")})

\* C21 (as claimed): aggregate emits delta = {analyses: current - previous,
\* high_severity: current_high - previous_high} if and only if the current
\* or the previous analysis count is nonzero, the current counts being
\* taken over the records in [first_edge, now] and the previous ones over
\* the records in [first_edge - window_duration, first_edge), a record
\* counted once toward a high count however many high events it has; delta
\* is None exactly when both windows are empty.
C21_DeltaIffEitherWindowNonempty ==
  \A c \in Callers :
    AggregateReturned(c)
    => LET r == TheOne(ret[c].val)
           current == CurrentWindow(c)
           previous == PreviousWindow(c)
       IN  /\ (r.delta = None) <=> (current = <<>> /\ previous = <<>>)
           /\ r.delta # None
                => TheOne(r.delta) =
                     [analyses |-> Len(current) - Len(previous),
                      high_severity |->
                        HighRecords(current) - HighRecords(previous)]

\* C22: validate_window returns "24h" or "7d" exactly when the input, after
\* trimming whitespace and lowercasing, is that value, and raises a
\* validation error for every other input, the empty string and None
\* included; get_snapshot with an invalid window fails with that error
\* before touching the cache (entries and lock registry unchanged).
C22_InvalidWindowFailsBeforeTheCache ==
  /\ [](\A value \in WindowArgs :
          /\ \A w \in SUPPORTED_WINDOWS :
               Names(value, w) <=> validate_window(value) = Some(w)
          /\ (\A w \in SUPPORTED_WINDOWS : ~Names(value, w))
               => validate_window(value) = None)
  /\ [][\A c \in Callers, value \in WindowArgs, regenerate \in BOOLEAN :
          GetSnapshot(c, value, regenerate)
          => IF \E w \in SUPPORTED_WINDOWS : Names(value, w)
               THEN /\ Names(value, call'[c].key)
                    /\ ret'[c].err # "ValueError"
               ELSE /\ ret'[c].status = "raised"
                    /\ ret'[c].err = "ValueError"
                    /\ pc'[c] = "idle"
                    /\ UNCHANGED <<entries, locks, lockObjs>>]_vars

\* C22 witness: a get_snapshot call has failed validation while the cache
\* holds an entry another call put there.
C22_Witness ==
  \E c \in Callers :
    /\ call[c].op = "get_snapshot" /\ pc[c] = "idle"
    /\ ret[c].status = "raised" /\ ret[c].err = "ValueError"
    /\ \E k \in Keys : entries[k] # None /\ locks[k] # None

\* the stored count of a date
StoredCount(d) ==
  IF request_counts[d] = None THEN 0 ELSE TheOne(request_counts[d]).requests

\* C23 (as claimed): the request counter records every tracked request:
\* once the requests made have completed, in any interleaving of their
\* handling, the stored count of the day is the number of completed
\* non-OPTIONS requests to paths starting with /api; OPTIONS requests and
\* other paths leave the table unchanged.
C23_EveryTrackedRequestIsCounted ==
  /\ []((\A c \in Callers : pc[c] = "idle")
          => \A d \in Dates : StoredCount(d) = tracked[d])
  /\ [][\A c \in Callers :
          (\/ \E path \in Paths : Dispatch(c, "OPTIONS", path)
           \/ /\ CallNextReturns(c)
              /\ ~startswith(call[c].path, Str(<<"/", "a", "p", "i">>)))
          => UNCHANGED request_counts]_vars

\* C24 (as claimed): get_snapshot leaves the cache entry's stored value
\* unchanged: the cache keeps the canonical snapshot as built, and the
\* expiry annotation makes a separate copy for the caller; so when a
\* get_snapshot call returns what it has just built, the entry holds the
\* snapshot _build_snapshot produced, and a call answered from the cache
\* leaves the entry's value as it was.
C24_CacheKeepsTheSnapshotAsBuilt ==
  [][\A c \in Callers :
       /\ (BuilderReturn(c) /\ call[c].op = "get_snapshot")
            => TheOne(entries'[call[c].key]).value =
                 _build_snapshot(call[c].key, TheOne(local[c].rows),
                                 TheOne(local[c].previous_rows),
                                 TheOne(local[c].generated_at))
       /\ (SnapshotReturned(c) /\ ret'[c].via = "cache")
            => \A k \in Keys :
                 (entries[k] # None /\ entries'[k] # None)
                   => TheOne(entries'[k]).value = TheOne(entries[k]).value
     ]_vars

\* C25: with TTL <= 0 and no explicit expiry, set(key, value) returns the
\* new entry to its caller, and get_or_set hands the entry it has just built
\* to the caller that built it; the entry expires at the instant it is set,
\* so every get(key) from then on is a miss that evicts it, and a
\* get_or_set answered from the cache returns only an entry that was given
\* an explicit, later expiry.
C25_WithoutTtlAnEntryIsServedOnce ==
  [][ttl <= 0 =>
       \A c \in Callers :
         /\ \A k \in Keys :
              CacheSet(c, k, None)
              => /\ ret'[c].status = "ok"
                 /\ ret'[c].val # None
                 /\ ret'[c].val = entries'[k]
                 /\ TheOne(ret'[c].val).expires_at = Some(now)
         /\ (BuilderReturn(c) /\ call[c].op = "get_or_set")
              => /\ ret'[c].status = "ok" /\ ret'[c].via = "built"
                 /\ TheOne(ret'[c].val).value =
                      _build_snapshot(call[c].key, TheOne(local[c].rows),
                                      TheOne(local[c].previous_rows),
                                      TheOne(local[c].generated_at))
                 /\ TheOne(ret'[c].val).expires_at = Some(now)
         /\ \A k \in Keys :
              (/\ CacheGet(c, k)
               /\ entries[k] # None
               /\ TheOne(TheOne(entries[k]).expires_at) <= now)
              => ret'[c].status = "miss" /\ entries'[k] = None
         /\ (/\ \/ \E k \in Keys : CacheGetOrSet(c, k)
                \/ LockAcquired(c)
             /\ pc'[c] = "idle" /\ ret'[c].via = "cache")
              => TheOne(TheOne(ret'[c].val).expires_at) > now
     ]_vars

\* C25 witness: without a TTL, a set with no explicit expiry returned its
\* entry, and a get of the same key was a miss that left the key empty.
C25_Witness ==
  /\ ttl <= 0
  /\ \E c1, c2 \in Callers :
       /\ call[c1].op = "set" /\ call[c1].expires_at = None
       /\ ret[c1].status = "ok"
       /\ TheOne(ret[c1].val).expires_at = Some(now)
       /\ call[c2].op = "get" /\ call[c2].key = call[c1].key
       /\ ret[c2].status = "miss"
       /\ entries[call[c1].key] = None

\* C26: invalidate(k) removes only the entry for key k, and so does the
\* invalidation regenerate_snapshot(k) performs: the entries of every other
\* key are unchanged and no lock of the registry is removed or replaced
\* (invalidate leaves the registry and its locks exactly as they were);
\* invalidate() with no key removes every entry and leaves the registry
\* unchanged as well.
C26_InvalidateRemovesOnlyItsKey ==
  [][\A c \in Callers :
       /\ \A k \in Keys :
            CacheInvalidate(c, Some(k))
            => /\ entries'[k] = None
               /\ \A other \in Keys \ {k} : entries'[other] = entries[other]
               /\ UNCHANGED <<locks, lockObjs>>
       /\ CacheInvalidate(c, None)
            => /\ \A k \in Keys : entries'[k] = None
               /\ UNCHANGED <<locks, lockObjs>>
       /\ \A raw \in WindowArgs :
            (GetSnapshot(c, raw, TRUE) /\ validate_window(raw) # None)
            => LET k == TheOne(validate_window(raw))
               IN  /\ entries'[k] = None
                   /\ \A other \in Keys \ {k} :
                        /\ entries'[other] = entries[other]
                        /\ locks'[other] = locks[other]
                   /\ locks[k] # None => locks'[k] = locks[k]
     ]_vars

\* C26 witness: an invalidate(k) has emptied key k while the other key keeps
\* its entry and both keys keep their registered locks.
C26_Witness ==
  \E c \in Callers, other \in Keys :
    /\ call[c].op = "invalidate" /\ ~call[c].regen
    /\ call[c].key # other
    /\ entries[call[c].key] = None
    /\ entries[other] # None
    /\ locks[call[c].key] # None /\ locks[other] # None

\* the generated_at a persisted payload carries, if it carries one
PersistedGeneratedAt(row) ==
  IF "generated_at" \in DOMAIN row.payload
    THEN Some(row.payload.generated_at.iso8601) ELSE None

\* C27 (as claimed): for a given share token, the generated_at of the
\* persisted payload never decreases: in any interleaving of
\* get_shared_snapshot calls with get_snapshot calls, a write-back never
\* replaces a newer persisted snapshot with an older one.
C27_PersistedSnapshotNeverGoesBack ==
  [][\A h \in Hashes :
       (/\ shares[h] # None /\ shares'[h] # None
        /\ PersistedGeneratedAt(TheOne(shares[h])) # None
        /\ PersistedGeneratedAt(TheOne(shares'[h])) # None)
       => TheOne(PersistedGeneratedAt(TheOne(shares'[h])))
            >= TheOne(PersistedGeneratedAt(TheOne(shares[h])))
     ]_vars

\* C28 (as claimed): a create_share call on the service that fails (invalid
\* window, or a configuration error such as a missing share base URL)
\* leaves the share table as it was: a create_share call that has ended
\* raised has persisted no share row.
C28_FailedCreateSharePersistsNothing ==
  \A c \in Callers :
    (call[c].op = "create_share" /\ pc[c] = "idle"
       /\ ret[c].status = "raised")
    => call[c].persisted = None

\* C29 (as claimed): an expires_at passed explicitly to the service's
\* create_share remains the share row's expires_at after any number of
\* later get_shared_snapshot calls on that token.
C29_ExplicitExpiryIsKept ==
  \A c \in Callers :
    (/\ call[c].op = "create_share" /\ pc[c] = "idle"
     /\ ret[c].status = "ok"
     /\ call[c].expires_at # None)
    => LET row == shares[_hash_token(TheOne(ret[c].val).token)]
       IN  row # None /\ TheOne(row).expires_at = call[c].expires_at

\* C30: under fair scheduling, if every builder invocation eventually
\* returns or raises, then every get_or_set call eventually returns or
\* raises: the lock is released on every path, a raising builder included,
\* so no caller waits on a lock forever.
C30_GetOrSetTerminates ==
  \A c \in Callers : (pc[c] # "idle") ~> (pc[c] = "idle")

\* C30 witness: a get_or_set whose builder raised has ended, and the lock
\* it held is free for the caller waiting on it.
C30_Witness ==
  \E c1, c2 \in Callers :
    /\ call[c1].op = "get_or_set" /\ pc[c1] = "idle"
    /\ ret[c1].status = "raised"
    /\ pc[c2] = "await_lock" /\ call[c2].key = call[c1].key
    /\ ~lockObjs[TheOne(local[c2].lock)].locked
    /\ Head(lockObjs[TheOne(local[c2].lock)].waiters) = c2

====
